---- MODULE Spec2Model ----
(***************************************************************************)
(* The lens relationship graph of src/src/lens/graph.py: the construction  *)
(* of LensGraph (catalog, curated relationships, frames, temporal and      *)
(* concept edges) and the query methods over the finished graph.           *)
(*                                                                         *)
(* Conventions.  Ids are atoms.  Texts (tags, definitions, the target of a *)
(* journey) are sequences of characters, so that lower() and substring     *)
(* tests are computed.  Weights are counted in tenths (0.3 is 3).  The     *)
(* networkx DiGraph keeps nodes and adjacency in insertion order: nodes    *)
(* and edges are sequences without repetition, the data are functions.     *)
(***************************************************************************)
EXTENDS Integers, Sequences, FiniteSets, TLC

VARIABLES lensDoc, connDoc, frameDoc, pc, graph, lens_lists, ret,
          cache, now, CACHE_VERSION, lastSet

vars == <<lensDoc, connDoc, frameDoc, pc, graph, lens_lists, ret,
          cache, now, CACHE_VERSION, lastSet>>

docs == <<lensDoc, connDoc, frameDoc>>

\* The query cache of the API process, the clock it reads, and for each
\* endpoint and parameter mapping the last set and whether a clear followed.
cacheVars == <<cache, now, CACHE_VERSION, lastSet>>

(***************************************************************************)
(* Sequence helpers.                                                       *)
(***************************************************************************)
Range(s) == {s[i] : i \in DOMAIN s}

RECURSIVE Flatten(_)
Flatten(ss) == IF ss = <<>> THEN <<>> ELSE Head(ss) \o Flatten(Tail(ss))

Take(s, n) == SubSeq(s, 1, IF n < Len(s) THEN n ELSE Len(s))

RECURSIVE Perms(_)
Perms(S) ==
    IF S = {} THEN {<<>>}
    ELSE UNION {{<<x>> \o p : p \in Perms(S \ {x})} : x \in S}

(***************************************************************************)
(* Texts: str.lower() and the substring test `x in y`.                     *)
(***************************************************************************)
LowerChar(c) ==
    CASE c = "A" -> "a"
      [] c = "I" -> "i"
      [] c = "G" -> "g"
      [] OTHER -> c

Lower(s) == [i \in DOMAIN s |-> LowerChar(s[i])]

Contains(hay, needle) ==
    \E k \in 0..(Len(hay) - Len(needle)) :
        \A i \in 1..Len(needle) : hay[k + i] = needle[i]

(***************************************************************************)
(* int(data['episode']) on the JSON token of the episode.                  *)
(***************************************************************************)
IsIntLike(tok) == tok \in {"1", "2", "3", "4"}

IntOf(tok) ==
    CASE tok = "1" -> 1
      [] tok = "2" -> 2
      [] tok = "3" -> 3
      [] tok = "4" -> 4

(***************************************************************************)
(* Edge weights set by the builder, in tenths.                             *)
(***************************************************************************)
FrameWeight == 3
TemporalWeight == 1
ConceptWeight == 4
RareMin == 2
RareMax == 5

(***************************************************************************)
(* The DiGraph.                                                            *)
(***************************************************************************)
EmptyGraph ==
    [nodes |-> <<>>, nodeData |-> <<>>, edges |-> <<>>, edgeData |-> <<>>]

NoData ==
    [hasData |-> FALSE, name |-> "", episode |-> "", definition |-> <<>>,
     related_concepts |-> [kind |-> "absent", items |-> <<>>]]

NodeSet(g) == Range(g.nodes)

EdgeSet(g) == Range(g.edges)

has_node(g, n) == n \in NodeSet(g)

has_edge(g, u, v) == <<u, v>> \in EdgeSet(g)

\* G.add_node(n, **attrs): a new node is appended, a known one updated.
add_node(g, n, attrs) ==
    [g EXCEPT !.nodes = IF has_node(g, n) THEN @ ELSE Append(@, n),
              !.nodeData = (n :> attrs) @@ @]

\* The nodes an add_edge(u, v) creates: u, then v, when not yet nodes.
WithNode(g, n) ==
    IF has_node(g, n) THEN g
    ELSE [g EXCEPT !.nodes = Append(@, n), !.nodeData = (n :> NoData) @@ @]

\* Faulty variant: an edge that exists keeps its attributes.
add_edge_KeepFirst(g, u, v, attrs) ==
    LET g2 == WithNode(WithNode(g, u), v)
    IN  IF has_edge(g2, u, v) THEN g2
        ELSE [g2 EXCEPT !.edges = Append(@, <<u, v>>),
                        !.edgeData = (<<u, v>> :> attrs) @@ @]

\* G.add_edge(u, v, **attrs): the edge keeps its place when it exists and
\* its attributes are overwritten.
add_edge(g, u, v, attrs) ==
    LET g2 == WithNode(WithNode(g, u), v)
    IN  [g2 EXCEPT !.edges = IF has_edge(g2, u, v) THEN @ ELSE Append(@, <<u, v>>),
                   !.edgeData = (<<u, v>> :> attrs) @@ @]

\* G.neighbors(n) and G.predecessors(n), in insertion order.
neighbors(g, n) ==
    LET out == SelectSeq(g.edges, LAMBDA e : e[1] = n)
    IN  [i \in DOMAIN out |-> out[i][2]]

predecessors(g, n) ==
    LET inc == SelectSeq(g.edges, LAMBDA e : e[2] = n)
    IN  [i \in DOMAIN inc |-> inc[i][1]]

\* Faulty variants of the guard: none at all, and one that looks in both directions.
AddIfAbsent_Unguarded(g, u, v, attrs) == add_edge(g, u, v, attrs)

AddIfAbsent_EitherDirection(g, u, v, attrs) ==
    IF has_edge(g, u, v) \/ has_edge(g, v, u) THEN g ELSE add_edge(g, u, v, attrs)

\* The guarded add of the frame, temporal and concept steps.
AddIfAbsent(g, u, v, attrs) ==
    IF has_edge(g, u, v) THEN g ELSE add_edge(g, u, v, attrs)

RECURSIVE AddAllIfAbsent(_, _, _)
AddAllIfAbsent(g, pairs, attrs) ==
    IF pairs = <<>> THEN g
    ELSE AddAllIfAbsent(AddIfAbsent(g, Head(pairs)[1], Head(pairs)[2], attrs),
                        Tail(pairs), attrs)

\* for i, x in enumerate(l): for y in l[i+1:]: the pairs, in loop order.
RECURSIVE PairsOf(_)
PairsOf(l) ==
    IF Len(l) < 2 THEN <<>>
    ELSE [i \in 1..(Len(l) - 1) |-> <<l[1], l[i + 1]>>] \o PairsOf(Tail(l))

(***************************************************************************)
(* _load_lenses: the catalog records become nodes, up to the first record  *)
(* that lacks a required key (KeyError, caught: the rest is not loaded).   *)
(***************************************************************************)
RECURSIVE AddLenses(_, _)
AddLenses(g, recs) ==
    IF recs = <<>> \/ ~Head(recs).complete THEN g
    ELSE AddLenses(
            add_node(g, Head(recs).id,
                     [hasData |-> TRUE,
                      name |-> Head(recs).name,
                      episode |-> Head(recs).episode,
                      definition |-> Head(recs).definition,
                      related_concepts |-> Head(recs).related_concepts]),
            Tail(recs))

_load_lenses ==
    /\ pc = "load_lenses"
    /\ graph' = IF lensDoc.loaded THEN AddLenses(graph, lensDoc.records) ELSE graph
    /\ pc' = "load_curated"
    /\ UNCHANGED <<docs, cacheVars, lens_lists, ret>>

(***************************************************************************)
(* _load_relationships, first block: the curated connections, added        *)
(* without a guard, up to the first record that lacks a required key.      *)
(***************************************************************************)
RECURSIVE AddConnections(_, _)
AddConnections(g, conns) ==
    IF conns = <<>> \/ ~Head(conns).complete THEN g
    ELSE AddConnections(
            add_edge(g, Head(conns).source_id, Head(conns).target_id,
                     [weight |-> Head(conns).weight,
                      type |-> Head(conns).type,
                      insight |-> Head(conns).insight]),
            Tail(conns))

_load_connections ==
    /\ pc = "load_curated"
    /\ graph' = IF connDoc.loaded THEN AddConnections(graph, connDoc.records) ELSE graph
    /\ pc' = "load_frames"
    /\ UNCHANGED <<docs, cacheVars, lens_lists, ret>>

(***************************************************************************)
(* _load_relationships, second block: the frames, up to the first frame    *)
(* without an id.                                                          *)
(***************************************************************************)
FrameData == [weight |-> FrameWeight, type |-> "frame", insight |-> ""]

RECURSIVE AddFrames(_, _)
AddFrames(g, frames) ==
    IF frames = <<>> \/ ~Head(frames).hasId THEN g
    ELSE AddFrames(AddAllIfAbsent(g, PairsOf(Head(frames).lens_ids), FrameData),
                   Tail(frames))

_load_frames ==
    /\ pc = "load_frames"
    /\ graph' = IF frameDoc.loaded THEN AddFrames(graph, frameDoc.records) ELSE graph
    /\ pc' = "temporal"
    /\ UNCHANGED <<docs, cacheVars, lens_lists, ret>>

(***************************************************************************)
(* _build_graph, first block: temporal edges between adjacent episodes.    *)
(***************************************************************************)
TemporalData == [weight |-> TemporalWeight, type |-> "temporal", insight |-> ""]

\* nodes_by_episode[ep]: the nodes with that episode, in node order.
nodes_by_episode(g, ep) ==
    SelectSeq(g.nodes, LAMBDA n :
        /\ g.nodeData[n].hasData
        /\ IsIntLike(g.nodeData[n].episode)
        /\ IntOf(g.nodeData[n].episode) = ep)

EpisodeKeys(g) ==
    {IntOf(g.nodeData[n].episode) :
        n \in {m \in NodeSet(g) : g.nodeData[m].hasData /\ IsIntLike(g.nodeData[m].episode)}}

Product(l1, l2) ==
    [k \in 1..(Len(l1) * Len(l2)) |->
        <<l1[((k - 1) \div Len(l2)) + 1], l2[((k - 1) % Len(l2)) + 1]>>]

\* Faulty variant: an episode is joined to the one two after it.
RECURSIVE TemporalPairs_SkipOne(_, _)
TemporalPairs_SkipOne(g, eps) ==
    IF eps = {} THEN <<>>
    ELSE LET ep == CHOOSE e \in eps : \A f \in eps : e <= f
         IN  (IF ep + 2 \in EpisodeKeys(g)
              THEN Product(nodes_by_episode(g, ep), nodes_by_episode(g, ep + 2))
              ELSE <<>>)
             \o TemporalPairs_SkipOne(g, eps \ {ep})

\* for ep in sorted(keys): if ep + 1 in keys: for lens1: for lens2
RECURSIVE TemporalPairs(_, _)
TemporalPairs(g, eps) ==
    IF eps = {} THEN <<>>
    ELSE LET ep == CHOOSE e \in eps : \A f \in eps : e <= f
         IN  (IF ep + 1 \in EpisodeKeys(g)
              THEN Product(nodes_by_episode(g, ep), nodes_by_episode(g, ep + 1))
              ELSE <<>>)
             \o TemporalPairs(g, eps \ {ep})

AddTemporal(g) == AddAllIfAbsent(g, TemporalPairs(g, EpisodeKeys(g)), TemporalData)

_build_temporal ==
    /\ pc = "temporal"
    /\ graph' = AddTemporal(graph)
    /\ pc' = "concept"
    /\ UNCHANGED <<docs, cacheVars, lens_lists, ret>>

(***************************************************************************)
(* _build_graph, second block: concept edges between the lenses that share *)
(* a rare tag.  Iterating data.get('related_concepts', []) raises when the *)
(* value is null (TypeError) and concept.lower() raises on an item that is *)
(* no string (AttributeError); nothing catches either.                     *)
(***************************************************************************)
ConceptData == [weight |-> ConceptWeight, type |-> "concept", insight |-> ""]

TagsRaise(g) ==
    \E n \in NodeSet(g) :
        g.nodeData[n].related_concepts.kind \in {"null", "list_with_number"}

\* The tags of the nodes, lower-cased, in node order and list order.
LowerAll(items) == [i \in DOMAIN items |-> Lower(items[i])]

AllTags(g) ==
    Flatten([i \in DOMAIN g.nodes |->
        LowerAll(g.nodeData[g.nodes[i]].related_concepts.items)])

\* The keys of concept_to_lenses in insertion order (first occurrence).
RECURSIVE Dedup(_, _)
Dedup(s, seen) ==
    IF s = <<>> THEN <<>>
    ELSE IF Head(s) \in seen THEN Dedup(Tail(s), seen)
         ELSE <<Head(s)>> \o Dedup(Tail(s), seen \cup {Head(s)})

ConceptKeys(g) == Dedup(AllTags(g), {})

\* concept_to_lenses[concept]: a set.
concept_to_lenses(g, concept) ==
    {n \in NodeSet(g) : concept \in Range(LowerAll(g.nodeData[n].related_concepts.items))}

\* Faulty variant of the threshold: six lenses still count as rare.
IsRare_UpToSix(lenses) ==
    RareMin <= Cardinality(lenses) /\ Cardinality(lenses) <= RareMax + 1

IsRare(lenses) == RareMin <= Cardinality(lenses) /\ Cardinality(lenses) <= RareMax

\* list(lenses) of every key that passes the threshold: a set iterates in an
\* order the hash seed of the process decides, so any order of the set.
RECURSIVE LensListChoices(_, _)
LensListChoices(g, keys) ==
    IF keys = <<>> THEN {<<>>}
    ELSE LET lenses == concept_to_lenses(g, Head(keys))
         IN  {<<h>> \o t :
                h \in (IF IsRare(lenses) THEN Perms(lenses) ELSE {<<>>}),
                t \in LensListChoices(g, Tail(keys))}

RECURSIVE AddConcepts(_, _)
AddConcepts(g, lists) ==
    IF lists = <<>> THEN g
    ELSE AddConcepts(AddAllIfAbsent(g, PairsOf(Head(lists)), ConceptData), Tail(lists))

_build_concepts ==
    /\ pc = "concept"
    /\ IF TagsRaise(graph)
       THEN /\ pc' = "raised"
            /\ UNCHANGED <<graph, lens_lists>>
       ELSE \E ll \in LensListChoices(graph, ConceptKeys(graph)) :
                /\ lens_lists' = ll
                /\ graph' = AddConcepts(graph, ll)
                /\ pc' = "built"
    /\ UNCHANGED <<docs, cacheVars, ret>>

(***************************************************************************)
(* Outcomes.  A library call or a query either returns a value or raises.  *)
(***************************************************************************)
Ok(v) == [exc |-> "none", val |-> v]

Raise(e) == [exc |-> e, val |-> <<>>]

\* sorted(..., reverse=True) / list.sort(reverse=True) on <<key, item>>
\* pairs: descending by key, equal keys keep their order (stable).
RECURSIVE SortDesc(_)
SortDesc(pairs) ==
    IF pairs = <<>> THEN <<>>
    ELSE LET n == Len(pairs)
             x == pairs[n]
             sorted == SortDesc(SubSeq(pairs, 1, n - 1))
             k == Cardinality({i \in DOMAIN sorted : sorted[i][1] >= x[1]})
         IN  SubSeq(sorted, 1, k) \o <<x>> \o SubSeq(sorted, k + 1, Len(sorted))

\* list.sort(key=...) ascending, stable.
RECURSIVE SortAsc(_)
SortAsc(pairs) ==
    IF pairs = <<>> THEN <<>>
    ELSE LET n == Len(pairs)
             x == pairs[n]
             sorted == SortAsc(SubSeq(pairs, 1, n - 1))
             k == Cardinality({i \in DOMAIN sorted : sorted[i][1] <= x[1]})
         IN  SubSeq(sorted, 1, k) \o <<x>> \o SubSeq(sorted, k + 1, Len(sorted))

Items(pairs) == [i \in DOMAIN pairs |-> pairs[i][2]]

(***************************************************************************)
(* nx.all_simple_paths(G, source, target, cutoff): a depth-first search in *)
(* adjacency order.  A source that is no node raises NodeNotFound.  A      *)
(* target that is no node is read as a collection of nodes, set(target):   *)
(* for a string, its characters.  The search ends a path at every member   *)
(* of the collection and goes on through it while a member is unvisited.   *)
(* For a source among the targets the releases of the library differ:      *)
(* nothing at all, or the one-node path followed by the search (trivial).  *)
(* Paths are listed in adjacency order; the releases that emit the last    *)
(* level of a search for several targets in set order differ from this     *)
(* only in the order of paths to different characters of an absent target. *)
(***************************************************************************)
\* set(id): the characters of the id.  "ab" is the one id of the model with
\* more than one character.
Chars(id) == IF id = "ab" THEN {"a", "b"} ELSE {id}

RECURSIVE SimplePathsFrom(_, _, _, _)
SimplePathsFrom(g, path, targets, cutoff) ==
    IF Len(path) - 1 >= cutoff THEN <<>>
    ELSE LET nbrs == neighbors(g, path[Len(path)])
         IN  Flatten([i \in DOMAIN nbrs |->
                IF nbrs[i] \in Range(path) THEN <<>>
                ELSE (IF nbrs[i] \in targets THEN <<Append(path, nbrs[i])>> ELSE <<>>)
                     \o (IF targets \ (Range(path) \cup {nbrs[i]}) # {}
                         THEN SimplePathsFrom(g, Append(path, nbrs[i]), targets, cutoff)
                         ELSE <<>>)])

all_simple_paths(g, source, target, cutoff, trivial) ==
    IF ~has_node(g, source) THEN Raise("NodeNotFound")
    ELSE LET targets == IF has_node(g, target) THEN {target} ELSE Chars(target)
         IN  IF source \in targets
             THEN Ok(IF trivial
                     THEN <<<<source>>>> \o SimplePathsFrom(g, <<source>>, targets, cutoff)
                     ELSE <<>>)
             ELSE Ok(SimplePathsFrom(g, <<source>>, targets, cutoff))

(***************************************************************************)
(* find_path.                                                              *)
(***************************************************************************)
TopPaths == 3

RECURSIVE path_weight(_, _)
path_weight(g, path) ==
    IF Len(path) < 2 THEN 0
    ELSE g.edgeData[<<path[1], path[2]>>].weight + path_weight(g, Tail(path))

RankedPaths(g, paths) ==
    Items(SortDesc([i \in DOMAIN paths |-> <<path_weight(g, paths[i]), paths[i]>>]))

find_path(g, source, target, max_length, trivial) ==
    LET r == all_simple_paths(g, source, target, max_length, trivial)
    IN  IF r.exc = "NetworkXNoPath" THEN Ok(<<>>)
        ELSE IF r.exc # "none" THEN Ok(<<>>)
        ELSE Ok(Take(RankedPaths(g, r.val), TopPaths))

(***************************************************************************)
(* find_bridges.  The candidates are a set; the order in which the set is  *)
(* iterated is the order of the score table before the stable sort.        *)
(***************************************************************************)
TopBridges == 5

\* The middle nodes of the three-node paths from l1 to l2; an exception of
\* the search is swallowed.
MiddleNodes(g, l1, l2, trivial) ==
    LET r == all_simple_paths(g, l1, l2, 3, trivial)
    IN  IF r.exc # "none" THEN {}
        ELSE {r.val[i][2] : i \in {j \in DOMAIN r.val : Len(r.val[j]) = 3}}

bridges(g, lens_ids, trivial) ==
    UNION {MiddleNodes(g, lens_ids[ij[1]], lens_ids[ij[2]], trivial) :
            ij \in {x \in (DOMAIN lens_ids) \X (DOMAIN lens_ids) : x[1] < x[2]}}

\* Faulty variant: only the edges from the listed ids to the bridge count.
RECURSIVE bridge_score_Incoming(_, _, _)
bridge_score_Incoming(g, bridge, lens_ids) ==
    IF lens_ids = <<>> THEN 0
    ELSE LET lens == Head(lens_ids)
         IN  (IF lens # bridge /\ has_edge(g, lens, bridge)
              THEN g.edgeData[<<lens, bridge>>].weight ELSE 0)
             + bridge_score_Incoming(g, bridge, Tail(lens_ids))

RECURSIVE bridge_score(_, _, _)
bridge_score(g, bridge, lens_ids) ==
    IF lens_ids = <<>> THEN 0
    ELSE LET lens == Head(lens_ids)
         IN  (IF lens # bridge /\ has_edge(g, lens, bridge)
              THEN g.edgeData[<<lens, bridge>>].weight ELSE 0)
             + (IF lens # bridge /\ has_edge(g, bridge, lens)
                THEN g.edgeData[<<bridge, lens>>].weight ELSE 0)
             + bridge_score(g, bridge, Tail(lens_ids))

\* One outcome per order in which the candidate set is iterated.
find_bridges(g, lens_ids, trivial) ==
    {Ok(Take(Items(SortDesc([i \in DOMAIN order |->
                    <<bridge_score(g, order[i], lens_ids), order[i]>>])),
             TopBridges)) :
        order \in Perms(bridges(g, lens_ids, trivial))}

(***************************************************************************)
(* find_contrasts.  G.neighbors(n) raises NetworkXError when n is no node. *)
(***************************************************************************)
\* Faulty variant: a paradox edge does not qualify.
IsContrast_OnlyContrast(g, u, v) == g.edgeData[<<u, v>>].type \in {"contrast"}

IsContrast(g, u, v) == g.edgeData[<<u, v>>].type \in {"contrast", "paradox"}

find_contrasts(g, lens_id) ==
    IF ~has_node(g, lens_id) THEN Raise("NetworkXError")
    ELSE LET out == SelectSeq(neighbors(g, lens_id), LAMBDA n : IsContrast(g, lens_id, n))
             inc == SelectSeq(predecessors(g, lens_id), LAMBDA n : IsContrast(g, n, lens_id))
         IN  Ok([i \in DOMAIN out |-> <<out[i], g.edgeData[<<lens_id, out[i]>>].insight>>]
                \o [i \in DOMAIN inc |-> <<inc[i], g.edgeData[<<inc[i], lens_id>>].insight>>])

(***************************************************************************)
(* get_lens_neighborhood: breadth-first, the discoveries as <<kind, node>> *)
(* in the order they are made (the mapping groups them by kind).           *)
(***************************************************************************)
\* The for loop over the neighbors of current: st = [visited, found, queue].
\* Faulty variant: a node met again is listed again, under the kind of the
\* edge it was met through.
RECURSIVE Explore_ListAgain(_, _, _, _, _)
Explore_ListAgain(g, current, depth, nbrs, st) ==
    IF nbrs = <<>> THEN st
    ELSE LET n == Head(nbrs)
         IN  Explore_ListAgain(g, current, depth, Tail(nbrs),
                IF n \in st.visited
                THEN [st EXCEPT !.found = Append(@, <<g.edgeData[<<current, n>>].type, n>>)]
                ELSE [visited |-> st.visited \cup {n},
                      found |-> Append(st.found, <<g.edgeData[<<current, n>>].type, n>>),
                      queue |-> Append(st.queue, <<n, depth + 1>>)])

RECURSIVE Explore(_, _, _, _, _)
Explore(g, current, depth, nbrs, st) ==
    IF nbrs = <<>> THEN st
    ELSE LET n == Head(nbrs)
         IN  Explore(g, current, depth, Tail(nbrs),
                IF n \in st.visited THEN st
                ELSE [visited |-> st.visited \cup {n},
                      found |-> Append(st.found, <<g.edgeData[<<current, n>>].type, n>>),
                      queue |-> Append(st.queue, <<n, depth + 1>>)])

\* Faulty variant: the nodes at depth radius are expanded too.
RECURSIVE Bfs_OneHopTooFar(_, _, _)
Bfs_OneHopTooFar(g, radius, st) ==
    IF st.queue = <<>> THEN Ok(st.found)
    ELSE LET current == Head(st.queue)[1]
             depth == Head(st.queue)[2]
             rest == [st EXCEPT !.queue = Tail(@)]
         IN  IF depth > radius THEN Bfs_OneHopTooFar(g, radius, rest)
             ELSE IF ~has_node(g, current) THEN Raise("NetworkXError")
             ELSE Bfs_OneHopTooFar(g, radius,
                    Explore(g, current, depth, neighbors(g, current), rest))

\* Faulty variant: the traversal follows the edges against their direction
\* as well.
RECURSIVE Explore_AnyDirection(_, _, _, _, _)
Explore_AnyDirection(g, current, depth, nbrs, st) ==
    IF nbrs = <<>> THEN st
    ELSE LET n == Head(nbrs)
             e == IF has_edge(g, current, n) THEN <<current, n>> ELSE <<n, current>>
         IN  Explore_AnyDirection(g, current, depth, Tail(nbrs),
                IF n \in st.visited THEN st
                ELSE [visited |-> st.visited \cup {n},
                      found |-> Append(st.found, <<g.edgeData[e].type, n>>),
                      queue |-> Append(st.queue, <<n, depth + 1>>)])

RECURSIVE Bfs_AnyDirection(_, _, _)
Bfs_AnyDirection(g, radius, st) ==
    IF st.queue = <<>> THEN Ok(st.found)
    ELSE LET current == Head(st.queue)[1]
             depth == Head(st.queue)[2]
             rest == [st EXCEPT !.queue = Tail(@)]
         IN  IF depth >= radius THEN Bfs_AnyDirection(g, radius, rest)
             ELSE IF ~has_node(g, current) THEN Raise("NetworkXError")
             ELSE Bfs_AnyDirection(g, radius,
                    Explore_AnyDirection(g, current, depth,
                        neighbors(g, current) \o predecessors(g, current), rest))

RECURSIVE Bfs(_, _, _)
Bfs(g, radius, st) ==
    IF st.queue = <<>> THEN Ok(st.found)
    ELSE LET current == Head(st.queue)[1]
             depth == Head(st.queue)[2]
             rest == [st EXCEPT !.queue = Tail(@)]
         IN  IF depth >= radius THEN Bfs(g, radius, rest)
             ELSE IF ~has_node(g, current) THEN Raise("NetworkXError")
             ELSE Bfs(g, radius, Explore(g, current, depth, neighbors(g, current), rest))

get_lens_neighborhood(g, lens_id, radius) ==
    Bfs(g, radius, [visited |-> {lens_id}, found |-> <<>>, queue |-> <<<<lens_id, 0>>>>])

(***************************************************************************)
(* suggest_lens_journey.  nx.shortest_path raises NodeNotFound for a start *)
(* that is no node and NetworkXNoPath when the target cannot be reached;   *)
(* only the latter is caught.  The edge cost is 1 / weight, here           *)
(* CostScale / weight with CostScale a common multiple of the weights.     *)
(* Which of several cheapest paths the library returns depends on its      *)
(* release (plain or bidirectional Dijkstra): any of them.                 *)
(***************************************************************************)
CostScale == 180
JourneyTargets == 5
JourneyNodes == 5

InverseCost(w) == CostScale \div w

RECURSIVE path_cost(_, _)
path_cost(g, path) ==
    IF Len(path) < 2 THEN 0
    ELSE InverseCost(g.edgeData[<<path[1], path[2]>>].weight) + path_cost(g, Tail(path))

\* The outcomes nx.shortest_path(G, source, target, weight) can have.  The
\* weight function 1 / weight raises ZeroDivisionError on an edge of weight 0
\* when the search examines that edge: always for an edge leaving the
\* source, which every search expands first; for another edge the search
\* can come to (its tail reachable from the source, or its head leading to
\* the target in a two-ended search), depending on the order of the search.
shortest_path(g, source, target) ==
    IF ~has_node(g, source) \/ ~has_node(g, target) THEN {Raise("NodeNotFound")}
    ELSE IF source = target THEN {Ok(<<source>>)}
    ELSE LET zero == {e \in EdgeSet(g) : g.edgeData[e].weight = 0}
             h == IF zero = {} THEN g
                  ELSE [g EXCEPT !.edges = SelectSeq(@, LAMBDA e : e \notin zero)]
             all == Range(SimplePathsFrom(h, <<source>>, {target}, Len(g.nodes)))
             found == IF all = {} THEN {Raise("NetworkXNoPath")}
                      ELSE {Ok(p) : p \in {x \in all :
                                \A y \in all : path_cost(h, x) <= path_cost(h, y)}}
             forward == {source} \cup
                        UNION {Range(p) : p \in Range(SimplePathsFrom(
                                   h, <<source>>, NodeSet(g), Len(g.nodes)))}
             backward == {target} \cup
                         {v \in NodeSet(g) :
                             SimplePathsFrom(h, <<v>>, {target}, Len(g.nodes)) # <<>>}
         IN  IF zero = {} THEN found
             ELSE IF \E e \in zero : e[1] = source THEN {Raise("ZeroDivisionError")}
             ELSE IF \E e \in zero : e[1] \in forward \/ e[2] \in backward
                  THEN found \cup {Raise("ZeroDivisionError")}
             ELSE found

Matches(g, n, target_concept) ==
    \/ Contains(Lower(g.nodeData[n].definition), Lower(target_concept))
    \/ \E i \in DOMAIN g.nodeData[n].related_concepts.items :
          Contains(Lower(g.nodeData[n].related_concepts.items[i]), Lower(target_concept))

target_lenses(g, target_concept) ==
    SelectSeq(g.nodes, LAMBDA n : Matches(g, n, target_concept))

\* The journeys list after the loop over the targets: one outcome per way
\* the library may answer; an exception other than NetworkXNoPath ends it.
RECURSIVE Journeys(_, _, _)
Journeys(g, start, targets) ==
    IF targets = <<>> THEN {Ok(<<>>)}
    ELSE UNION {
            IF first.exc = "NetworkXNoPath" THEN Journeys(g, start, Tail(targets))
            ELSE IF first.exc # "none" THEN {first}
            ELSE {IF rest.exc # "none" THEN rest
                  ELSE IF Len(first.val) <= JourneyNodes
                       THEN Ok(<<first.val>> \o rest.val)
                       ELSE rest : rest \in Journeys(g, start, Tail(targets))} :
            first \in shortest_path(g, start, Head(targets))}

suggest_lens_journey(g, start_lens_id, target_concept) ==
    LET targets == target_lenses(g, target_concept)
    IN  IF targets = <<>> THEN {Ok(<<>>)}
        ELSE {IF js.exc # "none" THEN js
              ELSE IF js.val = <<>> THEN Ok(<<>>)
              ELSE Ok(Items(SortAsc([i \in DOMAIN js.val |->
                                        <<Len(js.val[i]), js.val[i]>>]))[1]) :
                js \in Journeys(g, start_lens_id, Take(targets, JourneyTargets))}

(***************************************************************************)
(* get_lens_clusters.  to_undirected() builds a new graph; the clusters    *)
(* come from the community package when it imports, else from the          *)
(* connected components with more than one node.                           *)
(***************************************************************************)
Adjacent(g, u, v) == has_edge(g, u, v) \/ has_edge(g, v, u)

RECURSIVE ReachUndirected(_, _)
ReachUndirected(g, S) ==
    LET T == S \cup {v \in NodeSet(g) : \E u \in S : Adjacent(g, u, v)}
    IN  IF T = S THEN S ELSE ReachUndirected(g, T)

\* nx.connected_components, in the order of their first node.
connected_components(g) ==
    LET firsts == SelectSeq(g.nodes, LAMBDA n :
                    \A i \in DOMAIN g.nodes :
                        g.nodes[i] \in ReachUndirected(g, {n}) =>
                            \A j \in DOMAIN g.nodes : g.nodes[j] = n => j <= i)
    IN  [i \in DOMAIN firsts |-> ReachUndirected(g, {firsts[i]})]

IndexOf(seq, x) == CHOOSE i \in DOMAIN seq : seq[i] = x

\* best_partition: some partition of the nodes, each community inside one
\* component; which one is not computed here.  A community is labelled
\* with the position of its first node.
Partitions(g) ==
    LET inside == UNION {{<<n, m>> : m \in {x \in ReachUndirected(g, {n}) :
                                        IndexOf(g.nodes, x) <= IndexOf(g.nodes, n)}} :
                            n \in NodeSet(g)}
    IN  {{<<IndexOf(g.nodes, r) - 1, {n \in NodeSet(g) : f[n] = r}>> :
                r \in {f[m] : m \in NodeSet(g)}} :
            f \in {h \in [NodeSet(g) -> NodeSet(g)] :
                      \A n \in NodeSet(g) : <<n, h[n]>> \in inside /\ h[h[n]] = h[n]}}

\* Faulty variant: the components of one node are kept.
components_fallback_KeepSingletons(g) ==
    LET comps == connected_components(g)
    IN  Ok({<<i - 1, comps[i]>> : i \in DOMAIN comps})

components_fallback(g) ==
    LET comps == connected_components(g)
        kept == {i \in DOMAIN comps : Cardinality(comps[i]) > 1}
    IN  Ok({<<i - 1, comps[i]>> : i \in kept})

Undirected(g) ==
    LET back == SelectSeq(g.edges, LAMBDA e : ~has_edge(g, e[2], e[1]))
    IN  [g EXCEPT !.edges = @ \o [i \in DOMAIN back |-> <<back[i][2], back[i][1]>>],
                  !.edgeData = [e \in EdgeSet(g) \cup {<<x[2], x[1]>> : x \in EdgeSet(g)} |->
                                  IF e \in EdgeSet(g) THEN g.edgeData[e]
                                  ELSE g.edgeData[<<e[2], e[1]>>]]]

\* Faulty variant: the undirected view is made in place.
to_undirected_in_place(g) == [self |-> Undirected(g), result |-> Undirected(g)]

\* G.to_undirected(): the receiver after the call, and the graph returned.
to_undirected(g) == [self |-> g, result |-> Undirected(g)]

\* available: the import of the community module succeeds.  One outcome per
\* way the partition can turn out, or the one of the fallback.
get_lens_clusters(g, available) ==
    LET undirected == to_undirected(g).result
    IN  IF available THEN {Ok(P) : P \in Partitions(undirected)}
        ELSE {components_fallback(undirected)}

(***************************************************************************)
(* get_central_lenses.  Degree and betweenness are computed (as numerators *)
(* over the common denominator of the measure); the scores of a power      *)
(* iteration that converges are not: any two-level assignment.             *)
(***************************************************************************)
TopCentral == 10
BetweennessScale == 60

\* nx.degree_centrality: in-degree plus out-degree; 1 on a one-node graph.
degree_centrality(g) ==
    [n \in NodeSet(g) |->
        IF Len(g.nodes) <= 1 THEN 1
        ELSE Cardinality({e \in EdgeSet(g) : e[1] = n})
             + Cardinality({e \in EdgeSet(g) : e[2] = n})]

ShortestPaths(g, s, t) ==
    LET all == Range(SimplePathsFrom(g, <<s>>, {t}, Len(g.nodes)))
    IN  {p \in all : \A q \in all : Len(p) <= Len(q)}

RECURSIVE SumOver(_, _)
SumOver(f, S) ==
    IF S = {} THEN 0
    ELSE LET x == CHOOSE y \in S : TRUE IN f[x] + SumOver(f, S \ {x})

\* nx.betweenness_centrality: the share of the shortest s-t paths through n,
\* summed over the pairs s, t that some path joins.
betweenness_centrality(g) ==
    LET table == {<<st[1], st[2], ShortestPaths(g, st[1], st[2])>> :
                    st \in {x \in NodeSet(g) \X NodeSet(g) : x[1] # x[2]}}
        joined == {r \in table : r[3] # {}}
    IN  [n \in NodeSet(g) |->
            LET through == {r \in joined :
                              /\ r[1] # n /\ r[2] # n
                              /\ \E p \in r[3] : n \in Range(p)}
                share == [r \in through |->
                            (BetweennessScale * Cardinality({p \in r[3] : n \in Range(p)}))
                            \div Cardinality(r[3])]
            IN  SumOver(share, through)]

LowerName(measure) ==
    CASE measure = "PageRank" -> "pagerank"
      [] measure = "Betweenness" -> "betweenness"
      [] OTHER -> measure

\* Faulty variant: the measure name is compared as it was given.
centrality_CaseSensitive(g, measure, power) ==
    IF measure = "betweenness" THEN betweenness_centrality(g)
    ELSE IF measure \in {"eigenvector", "pagerank"} /\ power # {"fails"}
         THEN [n \in NodeSet(g) |-> IF n \in power THEN 2 ELSE 1]
    ELSE degree_centrality(g)

\* power: "fails", or the set of nodes a converged iteration scores high.
centrality(g, measure, power) ==
    LET measure_lower == LowerName(measure)
    IN  IF measure_lower = "betweenness" THEN betweenness_centrality(g)
        ELSE IF measure_lower \in {"eigenvector", "pagerank"} /\ power # {"fails"}
             THEN [n \in NodeSet(g) |-> IF n \in power THEN 2 ELSE 1]
        ELSE degree_centrality(g)

get_central_lenses(g, measure, power) ==
    LET c == centrality(g, measure, power)
        items == [i \in DOMAIN g.nodes |-> <<c[g.nodes[i]], g.nodes[i]>>]
        sorted_lenses == IF items = <<>> THEN <<>> ELSE SortDesc(items)
        top == Take(sorted_lenses, TopCentral)
    IN  Ok([i \in DOMAIN top |->
            <<top[i][2], top[i][1],
              IF g.nodeData[top[i][2]].hasData THEN g.nodeData[top[i][2]].name
              ELSE "Unknown">>])

(***************************************************************************)
(* The endpoint /api/v1/creative/central: get_central_lenses cut to limit, *)
(* with a fallback to betweenness when a pagerank request raises.  The     *)
(* enrichment of each entry from the lens store is left out.               *)
(***************************************************************************)
FallbackNote == "Note: Using betweenness centrality (PageRank temporarily unavailable)"

central_endpoint(g, measure, limit, power) ==
    LET r == get_central_lenses(g, measure, power)
        b == get_central_lenses(g, "betweenness", power)
    IN  IF r.exc = "none"
        THEN Ok([measure |-> measure, note |-> "none", central |-> Take(r.val, limit)])
        ELSE IF LowerName(measure) = "pagerank"
             THEN IF b.exc = "none"
                  THEN Ok([measure |-> "betweenness (pagerank fallback)",
                           note |-> FallbackNote, central |-> Take(b.val, limit)])
                  ELSE Raise(b.exc)
        ELSE Raise(r.exc)

(***************************************************************************)
(* GraphEnhancedRetrieval.get_lens_recommendations.                        *)
(***************************************************************************)
\* recommendations[neighbor] += weight, the table in insertion order.
Accumulate(recs, n, w) ==
    IF \E i \in DOMAIN recs : recs[i][2] = n
    THEN [i \in DOMAIN recs |-> IF recs[i][2] = n THEN <<recs[i][1] + w, n>> ELSE recs[i]]
    ELSE Append(recs, <<w, n>>)

RECURSIVE AccumulateAll(_, _, _, _, _)
AccumulateAll(g, lens_id, nbrs, current, recs) ==
    IF nbrs = <<>> THEN recs
    ELSE AccumulateAll(g, lens_id, Tail(nbrs), current,
            IF Head(nbrs) \in Range(current) THEN recs
            ELSE Accumulate(recs, Head(nbrs), g.edgeData[<<lens_id, Head(nbrs)>>].weight))

RECURSIVE Recommendations(_, _, _, _)
Recommendations(g, todo, current, recs) ==
    IF todo = <<>> THEN Ok(recs)
    ELSE IF ~has_node(g, Head(todo)) THEN Raise("NetworkXError")
    ELSE Recommendations(g, Tail(todo), current,
            AccumulateAll(g, Head(todo), neighbors(g, Head(todo)), current, recs))

NameOf(g, n) == IF g.nodeData[n].hasData THEN g.nodeData[n].name ELSE "Unknown"

get_lens_recommendations(g, current_lens_ids, limit) ==
    LET r == Recommendations(g, current_lens_ids, current_lens_ids, <<>>)
    IN  IF r.exc # "none" THEN r
        ELSE LET top == Take(SortDesc(r.val), limit)
             IN  Ok([i \in DOMAIN top |->
                     [id |-> top[i][2], name |-> NameOf(g, top[i][2]), score |-> top[i][1]]])

(***************************************************************************)
(* GraphEnhancedRetrieval.enhance_retrieval.  lens_ids is a set: order is  *)
(* the order list(lens_ids) has, border the order of the bridge set,       *)
(* aorder the order in which the additional ids are iterated.              *)
(***************************************************************************)
ContrastTop == 3
NeighborhoodTop == 2

IdSet(initial_lenses) == {initial_lenses[i].id : i \in DOMAIN initial_lenses}

RECURSIVE ContrastIds(_, _)
ContrastIds(g, ids) ==
    IF ids = <<>> THEN Ok({})
    ELSE LET c == find_contrasts(g, Head(ids))
             rest == ContrastIds(g, Tail(ids))
         IN  IF c.exc # "none" THEN c
             ELSE IF rest.exc # "none" THEN rest
             ELSE Ok({c.val[i][1] : i \in DOMAIN c.val} \cup rest.val)

RECURSIVE NeighborhoodIds(_, _)
NeighborhoodIds(g, ids) ==
    IF ids = <<>> THEN Ok({})
    ELSE LET nb == get_lens_neighborhood(g, Head(ids), 1)
             rest == NeighborhoodIds(g, Tail(ids))
         IN  IF nb.exc # "none" THEN nb
             ELSE IF rest.exc # "none" THEN rest
             ELSE Ok({nb.val[i][2] : i \in DOMAIN nb.val} \cup rest.val)

\* Faulty variant: the initial ids are not taken out of the additional ids.
additional_ids_KeepInitial(g, order, bridge_ids) ==
    LET contrast_ids == ContrastIds(g, Take(order, ContrastTop))
        neighborhood_ids == NeighborhoodIds(g, Take(order, NeighborhoodTop))
    IN  IF contrast_ids.exc # "none" THEN contrast_ids
        ELSE IF neighborhood_ids.exc # "none" THEN neighborhood_ids
        ELSE Ok(Range(bridge_ids) \cup contrast_ids.val \cup neighborhood_ids.val)

\* additional_ids, or the exception that ends the call.
additional_ids(g, order, bridge_ids) ==
    LET contrast_ids == ContrastIds(g, Take(order, ContrastTop))
        neighborhood_ids == NeighborhoodIds(g, Take(order, NeighborhoodTop))
    IN  IF contrast_ids.exc # "none" THEN contrast_ids
        ELSE IF neighborhood_ids.exc # "none" THEN neighborhood_ids
        ELSE Ok((Range(bridge_ids) \cup contrast_ids.val \cup neighborhood_ids.val)
                    \ Range(order))

GraphEntry(g, n) == [id |-> n, lens_name |-> NameOf(g, n), source |-> "graph"]

Enhanced(g, initial_lenses, aorder) ==
    LET kept == SelectSeq(aorder, LAMBDA n : has_node(g, n))
    IN  Ok(initial_lenses \o [i \in DOMAIN kept |-> GraphEntry(g, kept[i])])

\* One outcome per order of list(lens_ids), of the bridge set and of the
\* additional ids.
enhance_retrieval(g, initial_lenses, trivial) ==
    UNION {UNION {LET add == additional_ids(g, order, b.val)
                  IN  IF add.exc # "none" THEN {add}
                      ELSE {Enhanced(g, initial_lenses, aorder) : aorder \in Perms(add.val)} :
                  b \in find_bridges(g, order, trivial)} :
           order \in Perms(IdSet(initial_lenses))}

(***************************************************************************)
(* GraphEnhancedRetrieval.find_lens_synthesis_path.                        *)
(***************************************************************************)
SynthesisTop == 3
DefaultMaxLength == 4

_generate_path_insight(g, path) ==
    IF Len(path) = 2 THEN <<"direct", "">>
    ELSE IF Len(path) = 3 THEN <<"through", NameOf(g, path[2])>>
    ELSE <<"journey", "">>

find_lens_synthesis_path(g, lens_ids, trivial) ==
    LET pairs == PairsOf(lens_ids)
        found == SelectSeq(pairs, LAMBDA pr :
                    find_path(g, pr[1], pr[2], DefaultMaxLength, trivial).val # <<>>)
        paths == [i \in DOMAIN found |->
                    find_path(g, found[i][1], found[i][2], DefaultMaxLength, trivial).val[1]]
        sorted == Items(SortAsc([i \in DOMAIN paths |-> <<Len(paths[i]), paths[i]>>]))
    IN  IF Len(lens_ids) < 2 \/ paths = <<>> THEN Ok(<<>>)
        ELSE Ok(<<Take(sorted, SynthesisTop), _generate_path_insight(g, sorted[1])>>)

(***************************************************************************)
(* The input documents of the construction.                                *)
(***************************************************************************)
MaxConns == 2
MaxFrames == 1

SeqsUpTo(S, n) == UNION {[1..k -> S] : k \in 0..n}

TagAi == <<"a", "i">>
TagAI == <<"A", "I">>
TextGraph == <<"G", "r", "a", "p", "h">>

ListOf(items) == [kind |-> "list", items |-> items]
AbsentList == [kind |-> "absent", items |-> <<>>]

Lens(id, name, episode, tags) ==
    [id |-> id, name |-> name, complete |-> TRUE, episode |-> episode,
     definition |-> <<>>, related_concepts |-> tags]

Doc(records) == [loaded |-> TRUE, records |-> records]
MissingDoc == [loaded |-> FALSE, records |-> <<>>]

WellFormedCatalogs ==
    {Doc(<<Lens("a", "A", ea, ta), Lens("b", "B", eb, tb), Lens("c", "C", ec, tc)>>) :
        ea \in {"1", "2"}, ta \in {AbsentList, ListOf(<<TagAi>>)},
        eb \in {"1", "2"}, tb \in {ListOf(<<TagAi>>), ListOf(<<TagAI>>)},
        ec \in {"2", "x"}, tc \in {AbsentList, ListOf(<<TagAi>>)}}

MalformedCatalogs ==
    { MissingDoc,
      Doc(<<Lens("a", "A", "1", AbsentList),
            [Lens("b", "B", "2", AbsentList) EXCEPT !.complete = FALSE],
            Lens("c", "C", "2", AbsentList)>>),
      Doc(<<Lens("a", "A", "1", [kind |-> "null", items |-> <<>>]),
            Lens("b", "B", "2", ListOf(<<TagAi>>))>>),
      Doc(<<Lens("a", "A", "1", ListOf(<<TagAi>>)),
            Lens("b", "B", "2", [kind |-> "list_with_number", items |-> <<TagAi>>])>>) }

Conn(s, t, w, type, insight) ==
    [source_id |-> s, target_id |-> t, weight |-> w, type |-> type,
     insight |-> insight, complete |-> TRUE]

ConnPool ==
    { Conn("a", "b", 9, "supports", "i1"),
      Conn("b", "a", 5, "contrast", "i2"),
      Conn("a", "b", 2, "paradox", "i3"),
      Conn("a", "z", 5, "supports", "i4") }

WellFormedConnDocs == {Doc(cs) : cs \in SeqsUpTo(ConnPool, MaxConns)}

MalformedConnDocs ==
    { MissingDoc,
      Doc(<<Conn("a", "b", 9, "supports", "i1"),
            [Conn("b", "c", 5, "contrast", "i2") EXCEPT !.complete = FALSE],
            Conn("c", "a", 5, "supports", "i4")>>) }

Frame(hasId, lens_ids) == [hasId |-> hasId, lens_ids |-> lens_ids]

FramePool ==
    { Frame(TRUE, <<"a", "b">>),
      Frame(TRUE, <<"b", "a", "c">>),
      Frame(TRUE, <<"c", "z">>) }

WellFormedFrameDocs == {Doc(fs) : fs \in SeqsUpTo(FramePool, MaxFrames)}

MalformedFrameDocs ==
    { MissingDoc,
      Doc(<<Frame(TRUE, <<"a", "c">>), Frame(FALSE, <<"a", "b">>),
            Frame(TRUE, <<"b", "c">>)>>) }

NoCall == [op |-> "none", args |-> <<>>, exc |-> "none", value |-> <<>>]

Start ==
    /\ pc = "load_lenses"
    /\ graph = EmptyGraph
    /\ lens_lists = <<>>
    /\ ret = NoCall
    /\ cache = [k \in {} |-> <<>>]
    /\ now = 0
    /\ CACHE_VERSION = 0
    /\ lastSet = [k \in {} |-> <<>>]

(***************************************************************************)
(* The construction alone, over well-formed and malformed documents.       *)
(***************************************************************************)
InitBuild ==
    /\ lensDoc \in WellFormedCatalogs \cup MalformedCatalogs
    /\ connDoc \in WellFormedConnDocs \cup MalformedConnDocs
    /\ frameDoc \in WellFormedFrameDocs \cup MalformedFrameDocs
    /\ Start

Build ==
    \/ _load_lenses
    \/ _load_connections
    \/ _load_frames
    \/ _build_temporal
    \/ _build_concepts

SpecBuild == InitBuild /\ [][Build]_vars

(***************************************************************************)
(* The construction over catalogs large enough for the rare-tag threshold. *)
(***************************************************************************)
MaxTagged == 6

TagG == <<"g">>

TagIds == <<"a", "b", "c", "d", "e", "f", "g", "h">>

TagChoices(i) ==
    CASE i = 1 -> {AbsentList, ListOf(<<TagAi>>), ListOf(<<TagAi, TagG>>)}
      [] i = 2 -> {ListOf(<<TagAi>>), ListOf(<<TagAI>>)}
      [] i = 3 -> {AbsentList, ListOf(<<TagAi>>), ListOf(<<TagG, TagAi>>)}
      [] OTHER -> {AbsentList, ListOf(<<TagAi>>)}

TagEpisode(i) == IF i = 1 THEN "1" ELSE IF i = 2 THEN "2" ELSE "x"

TaggedCatalogs ==
    {Doc([i \in 1..MaxTagged |-> Lens(TagIds[i], TagIds[i], TagEpisode(i), tags[i])]) :
        tags \in {t \in [1..MaxTagged -> UNION {TagChoices(i) : i \in 1..MaxTagged}] :
                    \A i \in 1..MaxTagged : t[i] \in TagChoices(i)}}

InitTags ==
    /\ lensDoc \in TaggedCatalogs
    /\ connDoc \in {Doc(<<>>), Doc(<<Conn("b", "a", 9, "supports", "i1")>>)}
    /\ frameDoc \in {Doc(<<>>), Doc(<<Frame(TRUE, <<"c", "a">>)>>)}
    /\ Start

SpecTags == InitTags /\ [][Build]_vars

(***************************************************************************)
(* The queries on the finished graph.  A call leaves its outcome in ret.   *)
(***************************************************************************)
MaxRadius == 2
MaxLimit == 2
MaxQueryConns == 1
MaxQueryFrames == 1

Call(op, args, r) == [op |-> op, args |-> args, exc |-> r.exc, value |-> r.val]

QueryIds == {"a", "c", "z", "q", "ab"}

IdLists ==
    {<<"a", "b">>, <<"a", "c">>, <<"c", "a", "b">>, <<"a", "q">>, <<"a", "a">>, <<"c", "ab">>}

Texts == {TagAi, TextGraph, <<"z", "z">>}

Measures ==
    {"betweenness", "Betweenness", "eigenvector", "pagerank", "PageRank", "degree",
     "closeness"}

\* The two behaviours of all_simple_paths differ only when source = target.
Trivials(ids) ==
    IF \E i, j \in DOMAIN ids : i # j /\ Chars(ids[i]) \cap Chars(ids[j]) # {}
    THEN BOOLEAN ELSE {FALSE}

Returns(op, args, r) ==
    /\ pc = "built"
    /\ ret' = Call(op, args, r)
    /\ UNCHANGED <<docs, cacheVars, pc, graph, lens_lists>>

CallFindPath ==
    \E source \in QueryIds, target \in QueryIds, max_length \in {2, 4} :
      \E trivial \in Trivials(<<source, target>>) :
        Returns("find_path", <<source, target, max_length>>,
                find_path(graph, source, target, max_length, trivial))

CallFindBridges ==
    \E lens_ids \in IdLists :
      \E trivial \in Trivials(lens_ids) :
        \E r \in find_bridges(graph, lens_ids, trivial) :
            Returns("find_bridges", <<lens_ids>>, r)

CallFindContrasts ==
    \E lens_id \in QueryIds :
        Returns("find_contrasts", <<lens_id>>, find_contrasts(graph, lens_id))

CallGetLensNeighborhood ==
    \E lens_id \in QueryIds, radius \in 0..MaxRadius :
        Returns("get_lens_neighborhood", <<lens_id, radius>>,
                get_lens_neighborhood(graph, lens_id, radius))

CallSuggestLensJourney ==
    \E start \in QueryIds, target_concept \in Texts :
        \E r \in suggest_lens_journey(graph, start, target_concept) :
            Returns("suggest_lens_journey", <<start, target_concept>>, r)

CallGetLensClusters ==
    /\ pc = "built"
    /\ \E available \in BOOLEAN :
         \E r \in get_lens_clusters(graph, available) :
            ret' = Call("get_lens_clusters", <<available>>, r)
    /\ graph' = to_undirected(graph).self
    /\ UNCHANGED <<docs, cacheVars, pc, lens_lists>>

\* How a power iteration can turn out: it fails, or it converges with all
\* scores equal or with the last node scored highest.  The measures that
\* run no iteration have one outcome.
Powers(g, measure) ==
    IF LowerName(measure) \in {"eigenvector", "pagerank"}
    THEN {{"fails"}, {}} \cup {{g.nodes[i]} : i \in {Len(g.nodes)} \cap DOMAIN g.nodes}
    ELSE {{"fails"}}

CallGetCentralLenses ==
    \E measure \in Measures :
      \E power \in Powers(graph, measure) :
        Returns("get_central_lenses", <<measure, power>>,
                get_central_lenses(graph, measure, power))

\* The initial list of a call: one entry per id, as a vector search gives it.
InitialOf(lens_ids) ==
    [i \in DOMAIN lens_ids |-> [id |-> lens_ids[i], lens_name |-> "", source |-> "vector"]]

CallEnhanceRetrieval ==
    \E lens_ids \in IdLists :
      \E trivial \in Trivials(lens_ids) :
        \E r \in enhance_retrieval(graph, InitialOf(lens_ids), trivial) :
            Returns("enhance_retrieval", <<lens_ids>>, r)

CallGetLensRecommendations ==
    \E current_lens_ids \in IdLists, limit \in 1..MaxLimit :
        Returns("get_lens_recommendations", <<current_lens_ids, limit>>,
                get_lens_recommendations(graph, current_lens_ids, limit))

CallFindLensSynthesisPath ==
    \E lens_ids \in IdLists :
      \E trivial \in Trivials(lens_ids) :
        Returns("find_lens_synthesis_path", <<lens_ids>>,
                find_lens_synthesis_path(graph, lens_ids, trivial))

Query ==
    \/ CallFindPath
    \/ CallFindBridges
    \/ CallFindContrasts
    \/ CallGetLensNeighborhood
    \/ CallSuggestLensJourney
    \/ CallGetLensClusters
    \/ CallGetCentralLenses
    \/ CallEnhanceRetrieval
    \/ CallGetLensRecommendations
    \/ CallFindLensSynthesisPath

QueryCatalogs ==
    {Doc(<<[Lens("a", "A", "1", ListOf(<<TagAi>>)) EXCEPT !.definition = TextGraph],
           Lens("b", "B", eb, tb),
           Lens("c", "C", ec, AbsentList)>>) :
        eb \in {"1", "2"}, tb \in {AbsentList, ListOf(<<TagAI>>)}, ec \in {"2"}}

QueryConnPool ==
    { Conn("a", "b", 9, "supports", "i1"),
      Conn("b", "a", 5, "contrast", "i2"),
      Conn("c", "b", 2, "paradox", "i3") }

QueryFramePool ==
    { Frame(TRUE, <<"a", "b", "z", "c">>),
      Frame(TRUE, <<"c", "a">>) }

Init ==
    /\ lensDoc \in QueryCatalogs
    /\ connDoc \in {Doc(cs) : cs \in SeqsUpTo(QueryConnPool, MaxQueryConns)}
    /\ frameDoc \in {Doc(fs) : fs \in SeqsUpTo(QueryFramePool, MaxQueryFrames)}
    /\ Start

Next == Build \/ Query

Spec == Init /\ [][Next]_vars

(***************************************************************************)
(* What each construction step proposes, read off the input documents.     *)
(***************************************************************************)
LoadedIdx(doc, ok(_)) ==
    {i \in DOMAIN doc.records :
        doc.loaded /\ \A j \in 1..i : ok(doc.records[j])}

IsComplete(r) == r.complete
HasId(r) == r.hasId

CatalogIds == {lensDoc.records[i].id : i \in DOMAIN lensDoc.records}

LoadedLenses == {lensDoc.records[i] : i \in LoadedIdx(lensDoc, IsComplete)}

LoadedConns == {connDoc.records[i] : i \in LoadedIdx(connDoc, IsComplete)}

LoadedFrames == {frameDoc.records[i] : i \in LoadedIdx(frameDoc, HasId)}

IdxPairs(l) == {x \in (DOMAIN l) \X (DOMAIN l) : x[1] < x[2]}

CuratedProposed == {<<c.source_id, c.target_id>> : c \in LoadedConns}

FrameProposed ==
    UNION {{<<f.lens_ids[ij[1]], f.lens_ids[ij[2]]>> :
                ij \in IdxPairs(f.lens_ids)} :
           f \in LoadedFrames}

TemporalProposed ==
    {<<p[1].id, p[2].id>> :
        p \in {q \in LoadedLenses \X LoadedLenses :
                  /\ IsIntLike(q[1].episode) /\ IsIntLike(q[2].episode)
                  /\ IntOf(q[2].episode) = IntOf(q[1].episode) + 1}}

ConceptProposed ==
    UNION {{<<lens_lists[k][ij[1]], lens_lists[k][ij[2]]>> :
                ij \in IdxPairs(lens_lists[k])} :
           k \in DOMAIN lens_lists}

CuratedDataFor(e) ==
    {[weight |-> c.weight, type |-> c.type, insight |-> c.insight] :
        c \in {d \in LoadedConns : <<d.source_id, d.target_id>> = e}}

\* C1: after construction every ordered pair carries at most one edge, the
\* edges are exactly the proposed pairs, and each edge carries the kind,
\* weight and insight of the first step (curated, frame, temporal, concept)
\* that proposed its ordered pair: later proposals were dropped.
C1_FirstStepWins ==
    pc = "built" =>
        /\ Cardinality(EdgeSet(graph)) = Len(graph.edges)
        /\ DOMAIN graph.edgeData = EdgeSet(graph)
        /\ EdgeSet(graph) =
             CuratedProposed \cup FrameProposed \cup TemporalProposed \cup ConceptProposed
        /\ \A e \in EdgeSet(graph) :
             IF e \in CuratedProposed THEN graph.edgeData[e] \in CuratedDataFor(e)
             ELSE IF e \in FrameProposed
                  THEN graph.edgeData[e] = [weight |-> 3, type |-> "frame", insight |-> ""]
             ELSE IF e \in TemporalProposed
                  THEN graph.edgeData[e] = [weight |-> 1, type |-> "temporal", insight |-> ""]
             ELSE graph.edgeData[e] = [weight |-> 4, type |-> "concept", insight |-> ""]

C1_Witness ==
    /\ pc = "built"
    /\ CuratedProposed \cap TemporalProposed # {}
    /\ CuratedProposed \cap FrameProposed # {}
    /\ (FrameProposed \cap ConceptProposed) \ CuratedProposed # {}

EpisodeOf(id) ==
    {IntOf(l.episode) : l \in {m \in LoadedLenses : m.id = id /\ IsIntLike(m.episode)}}

\* Ordered pairs with a curated relationship in whichever direction whose
\* sequence indices differ by exactly 1.
CuratedAdjacent ==
    {e \in CuratedProposed \cup {<<p[2], p[1]>> : p \in CuratedProposed} :
        \E x \in EpisodeOf(e[1]), y \in EpisodeOf(e[2]) : x + 1 = y \/ y + 1 = x}

Guarded == pc \in {"load_frames", "temporal", "concept"}

C8_NeverRaises == pc # "raised"

\* C10 as stated: every node is a concept the catalog lists, at every step
\* of the construction.
C10_NodesFromCatalog == NodeSet(graph) \subseteq CatalogIds

\* Tags are compared as the builder compares them, lower-cased.
TagsOf(l) == Range(LowerAll(l.related_concepts.items))

Sharing(tag) == {l.id : l \in {m \in LoadedLenses : tag \in TagsOf(m)}}

CatalogTags == UNION {TagsOf(l) : l \in LoadedLenses}

RareTags == {t \in CatalogTags : Cardinality(Sharing(t)) \in 2..5}

EarlierProposed == CuratedProposed \cup FrameProposed \cup TemporalProposed

IsConceptEdge(u, v) ==
    /\ has_edge(graph, u, v)
    /\ graph.edgeData[<<u, v>>] = [weight |-> 4, type |-> "concept", insight |-> ""]

\* C9: a tag shared by 6 or more concepts produces no concept edge among
\* them (a concept edge between two of them stems from another, rare, tag
\* of both); for a tag shared by 2 to 5 concepts every pair of them is joined
\* by an edge, and every edge between the two is of kind concept with weight
\* 0.4 unless an earlier step proposed that edge.
C9_RareTagThreshold ==
    pc = "built" =>
        /\ \A t \in CatalogTags \ RareTags :
             \A u \in Sharing(t), v \in Sharing(t) :
                (has_edge(graph, u, v) /\ graph.edgeData[<<u, v>>].type = "concept")
                    => \E r \in RareTags : {u, v} \subseteq Sharing(r)
        /\ \A t \in RareTags :
             \A u \in Sharing(t), v \in Sharing(t) :
                u # v =>
                /\ has_edge(graph, u, v) \/ has_edge(graph, v, u)
                /\ (has_edge(graph, u, v) /\ <<u, v>> \notin EarlierProposed)
                      => IsConceptEdge(u, v)

C9_Witness ==
    /\ pc = "built"
    /\ \E t \in CatalogTags :
          /\ Cardinality(Sharing(t)) >= 6
          /\ \E u \in Sharing(t), v \in Sharing(t) :
                u # v /\ ~has_edge(graph, u, v) /\ ~has_edge(graph, v, u)
    /\ \E t \in RareTags :
          \E u \in Sharing(t), v \in Sharing(t) : IsConceptEdge(u, v)

(***************************************************************************)
(* The queries.                                                            *)
(***************************************************************************)
\* C3: once the construction has finished, no step changes the nodes, the
\* edges or the attributes of the graph, whatever queries are called and in
\* whatever order.
C3_ReadOnlyAfterBuild == [][pc = "built" => graph' = graph]_vars

C3_Witness ==
    /\ pc = "built"
    /\ ret.op = "get_lens_clusters"
    /\ \E e \in EdgeSet(graph) : ~has_edge(graph, e[2], e[1])

IsSimplePath(g, p, source, target, max_length) ==
    /\ Len(p) >= 1
    /\ Len(p) - 1 <= max_length
    /\ p[1] = source
    /\ p[Len(p)] = target
    /\ \A i, j \in DOMAIN p : i # j => p[i] # p[j]
    /\ \A i \in 1..(Len(p) - 1) : has_edge(g, p[i], p[i + 1])

SimplePaths(g, source, target, max_length) ==
    {p \in UNION {[1..k -> NodeSet(g)] : k \in 1..(max_length + 1)} :
        IsSimplePath(g, p, source, target, max_length)}

RECURSIVE Score(_, _)
Score(g, p) ==
    IF Len(p) < 2 THEN 0
    ELSE g.edgeData[<<p[Len(p) - 1], p[Len(p)]>>].weight + Score(g, SubSeq(p, 1, Len(p) - 1))

FindPathContract(source, target, max_length, paths) ==
    /\ Len(paths) <= 3
    /\ \A i \in DOMAIN paths : IsSimplePath(graph, paths[i], source, target, max_length)
    /\ \A i, j \in DOMAIN paths : i < j => Score(graph, paths[i]) >= Score(graph, paths[j])
    /\ \A p \in SimplePaths(graph, source, target, max_length) :
          (\A i \in DOMAIN paths : paths[i] # p)
              => \A i \in DOMAIN paths : Score(graph, p) <= Score(graph, paths[i])
    /\ \A m \in NodeSet(graph) :
          SimplePaths(graph, source, target, Len(graph.nodes)) = {<<source, m, target>>}
              => paths = <<<<source, m, target>>>>

\* C4 as stated: find_path returns at most 3 paths, each a simple directed
\* path from source to target of at most max_length edges, in non-increasing
\* order of score, no path left out scoring higher than a returned one; a
\* single route through one middle node is returned as the one path.
C4_FindPathContract ==
    ret.op = "find_path" =>
        /\ ret.exc = "none"
        /\ FindPathContract(ret.args[1], ret.args[2], ret.args[3], ret.value)

\* C5 as stated: find_path returns the empty list and does not raise when
\* the source or the target is no node of the graph, and when no directed
\* path from source to target exists within max_length edges.
C5_AbsentOrUnreachableIsEmpty ==
    (/\ ret.op = "find_path"
     /\ \/ ~has_node(graph, ret.args[1])
        \/ ~has_node(graph, ret.args[2])
        \/ SimplePaths(graph, ret.args[1], ret.args[2], ret.args[3]) = {})
        => ret.exc = "none" /\ ret.value = <<>>

\* C6 as stated: find_bridges, find_contrasts and get_lens_neighborhood,
\* called with an id that is no node of the graph, return an empty result
\* and do not raise.
C6_AbsentIdIsEmpty ==
    /\ (ret.op = "find_bridges" /\ \E i \in DOMAIN ret.args[1] : ~has_node(graph, ret.args[1][i]))
          => ret.exc = "none" /\ ret.value = <<>>
    /\ (ret.op \in {"find_contrasts", "get_lens_neighborhood"} /\ ~has_node(graph, ret.args[1]))
          => ret.exc = "none" /\ ret.value = <<>>

\* C7 as stated: suggest_lens_journey, get_lens_recommendations and
\* enhance_retrieval, called with a start id, a current id or an initial id
\* that is no node of the graph, return normally.
C7_AbsentIdReturnsNormally ==
    /\ (ret.op = "suggest_lens_journey" /\ ~has_node(graph, ret.args[1]))
          => ret.exc = "none"
    /\ (/\ ret.op \in {"get_lens_recommendations", "enhance_retrieval"}
        /\ \E i \in DOMAIN ret.args[1] : ~has_node(graph, ret.args[1][i]))
          => ret.exc = "none"

(***************************************************************************)
(* A second construction from the same documents.                          *)
(***************************************************************************)
\* The graph the loaders and the temporal block produce from the documents.
BeforeConcepts ==
    LET g1 == IF lensDoc.loaded THEN AddLenses(EmptyGraph, lensDoc.records) ELSE EmptyGraph
        g2 == IF connDoc.loaded THEN AddConnections(g1, connDoc.records) ELSE g1
        g3 == IF frameDoc.loaded THEN AddFrames(g2, frameDoc.records) ELSE g2
    IN  AddTemporal(g3)

\* Every graph a construction from the documents can end with, one per
\* iteration order of the sets of concept_to_lenses.
Rebuilds ==
    {AddConcepts(BeforeConcepts, ll) :
        ll \in LensListChoices(BeforeConcepts, ConceptKeys(BeforeConcepts))}

\* C11 as stated: a second construction from the same documents yields the
\* same nodes, the same directed edges and the same weight and kind on every
\* edge, whatever order the sets of the builder iterate in.
C11_IdempotentRebuild ==
    pc = "built" =>
        \A g \in Rebuilds :
            /\ NodeSet(g) = NodeSet(graph)
            /\ EdgeSet(g) = EdgeSet(graph)
            /\ \A e \in EdgeSet(g) : g.edgeData[e] = graph.edgeData[e]

(***************************************************************************)
(* find_bridges over graphs with two curated relationships.                *)
(***************************************************************************)
MaxBridgeConns == 2

BridgeCatalogs ==
    {Doc(<<Lens("a", "A", "1", AbsentList), Lens("b", "B", eb, AbsentList),
           Lens("c", "C", "2", AbsentList)>>) : eb \in {"1", "x"}}

BridgeConnPool ==
    { Conn("b", "a", 5, "supports", "i1"),
      Conn("a", "b", 9, "supports", "i2"),
      Conn("c", "b", 2, "supports", "i3"),
      Conn("b", "c", 7, "supports", "i4") }

InitBridges ==
    /\ lensDoc \in BridgeCatalogs
    /\ connDoc \in {Doc(cs) : cs \in SeqsUpTo(BridgeConnPool, MaxBridgeConns)}
    /\ frameDoc \in {Doc(<<>>), Doc(<<Frame(TRUE, <<"a", "b", "z", "c">>)>>)}
    /\ Start

NextBridges == Build \/ CallFindBridges

SpecBridges == InitBridges /\ [][NextBridges]_vars

CuratedJoined(x, y) == <<x, y>> \in CuratedProposed \/ <<y, x>> \in CuratedProposed

\* C12 as stated: when the query ids are exactly A and B and a concept X is
\* joined to A and to B by curated edges, in whatever directions,
\* find_bridges([A, B]) includes X.
C12_BridgeSymmetry ==
    (ret.op = "find_bridges" /\ Len(ret.args[1]) = 2 /\ ret.args[1][1] # ret.args[1][2]) =>
        \A x \in NodeSet(graph) \ Range(ret.args[1]) :
            (CuratedJoined(x, ret.args[1][1]) /\ CuratedJoined(x, ret.args[1][2]))
                => x \in Range(ret.value)

Reverse(l) == [i \in DOMAIN l |-> l[Len(l) + 1 - i]]

IsMiddle(x, ids) ==
    \E i, j \in DOMAIN ids :
        /\ ids[i] # ids[j] /\ x \notin {ids[i], ids[j]}
        /\ has_edge(graph, ids[i], x) /\ has_edge(graph, x, ids[j])

\* C13 as stated: the bridges do not depend on the order in which the ids
\* are listed, and every returned id is the one intermediate node of a
\* simple path between two of the query ids.
C13_BridgesUnordered ==
    ret.op = "find_bridges" =>
        /\ \A t \in Trivials(ret.args[1]) :
              \A r \in find_bridges(graph, Reverse(ret.args[1]), t) :
                 Range(r.val) = Range(ret.value)
        /\ \A i \in DOMAIN ret.value : IsMiddle(ret.value[i], ret.args[1])

(***************************************************************************)
(* find_contrasts and get_lens_neighborhood over chains of curated edges.  *)
(***************************************************************************)
MaxChainConns == 3

ChainCatalogs ==
    {Doc(<<Lens("a", "A", "1", AbsentList), Lens("b", "B", eb, AbsentList),
           Lens("c", "C", ec, AbsentList), Lens("d", "D", "x", AbsentList)>>) :
        eb \in {"2", "x"}, ec \in {"2", "x"}}

ChainConnPool ==
    { Conn("a", "b", 9, "contrast", "i1"),
      Conn("b", "a", 5, "paradox", "i2"),
      Conn("b", "c", 7, "supports", "i3"),
      Conn("c", "d", 2, "contrast", "i4"),
      Conn("c", "a", 4, "paradox", "i5") }

InitNeighbors ==
    /\ lensDoc \in ChainCatalogs
    /\ connDoc \in {Doc(cs) : cs \in SeqsUpTo(ChainConnPool, MaxChainConns)}
    /\ frameDoc \in {Doc(<<>>), Doc(<<Frame(TRUE, <<"c", "z">>)>>)}
    /\ Start

NextNeighbors == Build \/ CallFindContrasts \/ CallGetLensNeighborhood

SpecNeighbors == InitNeighbors /\ [][NextNeighbors]_vars

\* The nodes a directed walk of at most k edges from n ends at.
RECURSIVE Within(_, _)
Within(S, k) ==
    IF k = 0 THEN S
    ELSE Within(S \cup {v \in NodeSet(graph) : \E u \in S : has_edge(graph, u, v)}, k - 1)

\* C14: a neighborhood that is returned never holds the id itself nor a
\* node more than radius hops from it; with radius 0 it is empty.
C14_NeighborhoodBounded ==
    (ret.op = "get_lens_neighborhood" /\ ret.exc = "none") =>
        /\ \A i \in DOMAIN ret.value :
              /\ ret.value[i][2] # ret.args[1]
              /\ ret.value[i][2] \in Within({ret.args[1]}, ret.args[2])
        /\ ret.args[2] = 0 => ret.value = <<>>

C14_Witness ==
    /\ ret.op = "get_lens_neighborhood"
    /\ ret.exc = "none"
    /\ ret.args[2] = 2
    /\ ret.value # <<>>
    /\ Within({ret.args[1]}, 3) \ Within({ret.args[1]}, 2) # {}
    /\ \E v \in NodeSet(graph) : has_edge(graph, v, ret.args[1])

Qualifies(e) == has_edge(graph, e[1], e[2]) /\ graph.edgeData[e].type \in {"contrast", "paradox"}

\* How many entries of the result the edges at id account for.
Expected(id, entry) ==
    (IF Qualifies(<<id, entry[1]>>) /\ graph.edgeData[<<id, entry[1]>>].insight = entry[2]
     THEN 1 ELSE 0)
    + (IF Qualifies(<<entry[1], id>>) /\ graph.edgeData[<<entry[1], id>>].insight = entry[2]
       THEN 1 ELSE 0)

\* C15: the result of find_contrasts(id) holds one (neighbor, insight) entry
\* for each edge leaving id and each edge entering id whose kind is contrast
\* or paradox, and no other entry; an entry is repeated only as often as
\* edges account for it.
C15_ContrastsPerEdge ==
    (ret.op = "find_contrasts" /\ ret.exc = "none") =>
        /\ \A n \in NodeSet(graph) :
              /\ Qualifies(<<ret.args[1], n>>) =>
                    <<n, graph.edgeData[<<ret.args[1], n>>].insight>> \in Range(ret.value)
              /\ Qualifies(<<n, ret.args[1]>>) =>
                    <<n, graph.edgeData[<<n, ret.args[1]>>].insight>> \in Range(ret.value)
        /\ \A i \in DOMAIN ret.value :
              Cardinality({j \in DOMAIN ret.value : ret.value[j] = ret.value[i]})
                  = Expected(ret.args[1], ret.value[i])

C15_Witness ==
    /\ ret.op = "find_contrasts"
    /\ ret.exc = "none"
    /\ \E i, j \in DOMAIN ret.value : i # j /\ ret.value[i][1] = ret.value[j][1]
    /\ \E n \in NodeSet(graph) :
          has_edge(graph, ret.args[1], n) /\ ~Qualifies(<<ret.args[1], n>>)
    /\ \E i \in DOMAIN ret.value :
          /\ has_edge(graph, ret.value[i][1], ret.args[1])
          /\ graph.edgeData[<<ret.value[i][1], ret.args[1]>>].type = "paradox"

(***************************************************************************)
(* Ranking, on catalogs of three and of eleven concepts.                   *)
(***************************************************************************)
MaxRankConns == 2

RankIds == <<"a", "b", "c", "d", "e", "f", "g", "h", "i", "j", "k">>

RankCatalogs ==
    {Doc([i \in 1..n |-> Lens(RankIds[i], RankIds[i],
                              IF i = 3 THEN "1" ELSE IF i = 4 THEN "2" ELSE "x",
                              AbsentList)]) : n \in {3, Len(RankIds)}}

RankConnPool ==
    { Conn("a", "b", 9, "supports", "i1"),
      Conn("b", "c", 5, "supports", "i2"),
      Conn("b", "z", 4, "supports", "i4") }

CallCentralEndpoint ==
    \E measure \in Measures, limit \in {1, TopCentral} :
      \E power \in Powers(graph, measure) :
        Returns("central_endpoint", <<measure, limit, power>>,
                central_endpoint(graph, measure, limit, power))

InitRank ==
    /\ lensDoc \in RankCatalogs
    /\ connDoc \in {Doc(cs) : cs \in SeqsUpTo(RankConnPool, MaxRankConns)}
    /\ frameDoc = Doc(<<Frame(TRUE, <<"c", "a">>)>>)
    /\ Start

NextRank == Build \/ CallGetCentralLenses \/ CallCentralEndpoint

SpecRank == InitRank /\ [][NextRank]_vars

\* C16: when the pagerank computation fails, a pagerank request to the rank
\* endpoint answers normally with the betweenness ranking and with a note
\* telling that the measure used is not the requested one.
C16_PagerankFallbackVisible ==
    (/\ ret.op = "central_endpoint"
     /\ LowerName(ret.args[1]) = "pagerank"
     /\ ret.args[3] = {"fails"})
    => /\ ret.exc = "none"
       /\ ret.value.note # "none"
       /\ ret.value.measure # ret.args[1]
       /\ ret.value.central =
            Take(get_central_lenses(graph, "betweenness", {"fails"}).val, ret.args[2])

\* The scores the ranking of a measure is built from, by its lower-case name.
ScoresOf(g, name, power) ==
    IF name = "betweenness" THEN betweenness_centrality(g)
    ELSE IF name \in {"eigenvector", "pagerank"} /\ power # {"fails"}
         THEN [n \in NodeSet(g) |-> IF n \in power THEN 2 ELSE 1]
    ELSE degree_centrality(g)

\* entry x is ranked before entry y: higher score, or equal score and
\* earlier in the node order.
RankedBefore(g, sc, x, y) ==
    \/ sc[x] > sc[y]
    \/ sc[x] = sc[y] /\ IndexOf(g.nodes, x) < IndexOf(g.nodes, y)

\* C17: get_central_lenses returns at most 10 entries (id, score, name), the
\* best-scored nodes in non-increasing order of score with equal scores in
\* node order; the scores are those of the measure named, whatever the case
\* of the name, and those of degree centrality for any other name.
C17_RankingContract ==
    ret.op = "get_central_lenses" =>
        LET name == IF ret.args[1] \in {"PageRank", "pagerank"} THEN "pagerank"
                    ELSE IF ret.args[1] \in {"Betweenness", "betweenness"}
                         THEN "betweenness"
                    ELSE ret.args[1]
            sc == ScoresOf(graph, name, ret.args[2])
            v == ret.value
            listed == {v[i][1] : i \in DOMAIN v}
        IN  /\ ret.exc = "none"
            /\ Len(v) <= 10
            /\ Len(v) = IF Len(graph.nodes) < 10 THEN Len(graph.nodes) ELSE 10
            /\ listed \subseteq NodeSet(graph)
            /\ \A i \in DOMAIN v :
                 /\ v[i][2] = sc[v[i][1]]
                 /\ v[i][3] = IF graph.nodeData[v[i][1]].hasData
                              THEN graph.nodeData[v[i][1]].name ELSE "Unknown"
            /\ \A i, j \in DOMAIN v :
                 i < j => RankedBefore(graph, sc, v[i][1], v[j][1])
            /\ \A x \in listed, y \in NodeSet(graph) \ listed :
                 RankedBefore(graph, sc, x, y)

\* An eleven-node graph ranked by "PageRank": the node the iteration scores
\* highest comes first, ten entries are returned, the tied ones in node order.
C17_Witness ==
    /\ ret.op = "get_central_lenses"
    /\ ret.args = <<"PageRank", {"k"}>>
    /\ Len(graph.nodes) > 10
    /\ Len(ret.value) = 10
    /\ ret.value[1][1] = "k"
    /\ ret.value[2][1] = "a"
    /\ ret.value[2][2] = ret.value[3][2]

(***************************************************************************)
(* Journeys: a catalog of seven concepts, some of them tagged 'ai', joined *)
(* by a curated chain a -> b -> ... of up to MaxJourneyChain relationships *)
(* and at most one more relationship: one of weight 0, or a weak shortcut. *)
(***************************************************************************)
MaxJourneyChain == 5

JourneyIds == <<"a", "b", "c", "d", "e", "f", "g">>

JourneyCatalogs ==
    {Doc([i \in DOMAIN JourneyIds |->
            Lens(JourneyIds[i], JourneyIds[i], "x",
                 IF JourneyIds[i] \in tagged THEN ListOf(<<TagAi>>) ELSE AbsentList)]) :
        tagged \in {{"e"}, {"f"}, {"g"}, {"e", "f"}, {"c", "f"}}}

JourneyChain(k) ==
    [i \in 1..k |-> Conn(JourneyIds[i], JourneyIds[i + 1], 9, "supports", "i1")]

JourneyExtras ==
    { <<>>,
      <<Conn("a", "b", 0, "supports", "i2")>>,
      <<Conn("c", "d", 0, "supports", "i3")>>,
      <<Conn("a", "f", 1, "supports", "i4")>> }

InitJourney ==
    /\ lensDoc \in JourneyCatalogs
    /\ connDoc \in {Doc(JourneyChain(k) \o extra) :
                      k \in 0..MaxJourneyChain, extra \in JourneyExtras}
    /\ frameDoc = Doc(<<>>)
    /\ Start

NextJourney == Build \/ CallSuggestLensJourney

SpecJourney == InitJourney /\ [][NextJourney]_vars

\* C18: with an edge of weight 0 in the graph, suggest_lens_journey from a
\* start that is a node returns a result and does not fail with a division
\* error.
C18_ZeroWeightGuarded ==
    (/\ ret.op = "suggest_lens_journey"
     /\ has_node(graph, ret.args[1])
     /\ \E e \in EdgeSet(graph) : graph.edgeData[e].weight = 0)
    => ret.exc # "ZeroDivisionError"

\* The target has a weighted shortest path from start, and every such path
\* has at most n edges.
ShortestWithin(g, start, target, n) ==
    \A r \in shortest_path(g, start, target) : r.exc = "none" /\ Len(r.val) - 1 <= n

\* C19: a journey that is returned starts at start, ends at one of the first
\* five matching concepts, has at most 5 edges and is a weighted shortest
\* path there; the result is empty only if no such concept has a weighted
\* shortest path of at most 5 edges from start.
C19_KeepsUpToFiveEdges ==
    (ret.op = "suggest_lens_journey" /\ ret.exc = "none") =>
        LET start == ret.args[1]
            targets == Range(Take(target_lenses(graph, ret.args[2]), JourneyTargets))
        IN  /\ ret.value # <<>> =>
                /\ ret.value[1] = start
                /\ ret.value[Len(ret.value)] \in targets
                /\ Len(ret.value) - 1 <= 5
                /\ Ok(ret.value) \in
                     shortest_path(graph, start, ret.value[Len(ret.value)])
            /\ ret.value = <<>> =>
                \A t \in targets : ~ShortestWithin(graph, start, t, 5)

(***************************************************************************)
(* Enhancement of an initial result list, on the graphs of the chain       *)
(* catalogs.                                                               *)
(***************************************************************************)
NextEnhance == Build \/ CallEnhanceRetrieval

SpecEnhance == InitNeighbors /\ [][NextEnhance]_vars

\* C20: a result of enhance_retrieval is the initial list, unchanged and in
\* its order, followed by the added entries; every added entry has source
\* 'graph' and an id that is a node and is not an initial id, and no id is
\* added twice.
C20_EnhanceAppendsNewNodes ==
    (ret.op = "enhance_retrieval" /\ ret.exc = "none") =>
        LET initial == InitialOf(ret.args[1])
            v == ret.value
            added == (Len(initial) + 1)..Len(v)
        IN  /\ Len(v) >= Len(initial)
            /\ SubSeq(v, 1, Len(initial)) = initial
            /\ \A i \in added :
                 /\ v[i].source = "graph"
                 /\ v[i].id \notin Range(ret.args[1])
                 /\ has_node(graph, v[i].id)
                 /\ v[i].lens_name = NameOf(graph, v[i].id)
            /\ \A i, j \in added : v[i].id = v[j].id => i = j

\* Two initial concepts joined by an edge, and an entry added by the graph:
\* the neighbor that is already in the initial list is not added again.
C20_Witness ==
    /\ ret.op = "enhance_retrieval"
    /\ ret.exc = "none"
    /\ ret.args[1] = <<"a", "b">>
    /\ has_edge(graph, "a", "b")
    /\ Len(ret.value) > 2
    /\ ret.value[3].source = "graph"

(***************************************************************************)
(* Recommendations, on the graphs of the chain catalogs.                   *)
(***************************************************************************)
NextRecommend == Build \/ CallGetLensRecommendations

SpecRecommend == InitNeighbors /\ [][NextRecommend]_vars

\* The edges, in either direction, between n and the ids of current.
Connecting(g, n, current) ==
    {e \in EdgeSet(g) : \/ e[1] \in current /\ e[2] = n
                        \/ e[2] \in current /\ e[1] = n}

ConnectingWeight(g, n, current) ==
    SumOver([e \in Connecting(g, n, current) |-> g.edgeData[e].weight],
            Connecting(g, n, current))

\* C21: get_lens_recommendations scores every concept outside current_ids
\* that an outgoing or an incoming edge joins to an id of current_ids with
\* the sum of the weights of the edges joining it to those ids; it returns
\* at most limit entries, the best-scored ones, in non-increasing order of
\* score, and no id of current_ids.
C21_RecommendBothDirections ==
    (ret.op = "get_lens_recommendations" /\ ret.exc = "none") =>
        LET current == Range(ret.args[1])
            limit == ret.args[2]
            v == ret.value
            cands == {n \in NodeSet(graph) \ current : Connecting(graph, n, current) # {}}
            listed == {v[i].id : i \in DOMAIN v}
        IN  /\ Len(v) = IF Cardinality(cands) < limit THEN Cardinality(cands) ELSE limit
            /\ listed \subseteq cands
            /\ \A i \in DOMAIN v : v[i].score = ConnectingWeight(graph, v[i].id, current)
            /\ \A i, j \in DOMAIN v : i < j => v[i].score >= v[j].score
            /\ \A x \in listed, y \in cands \ listed :
                 ConnectingWeight(graph, x, current) >= ConnectingWeight(graph, y, current)

(***************************************************************************)
(* Clusters, on the graphs of the chain catalogs; a frame may list a       *)
(* concept twice, which joins the concept to itself.                       *)
(***************************************************************************)
MaxClusterConns == 2

ClusterConnPool ==
    { Conn("a", "b", 9, "contrast", "i1"),
      Conn("c", "d", 2, "contrast", "i4"),
      Conn("c", "a", 4, "paradox", "i5") }

InitClusters ==
    /\ lensDoc \in ChainCatalogs
    /\ connDoc \in {Doc(cs) : cs \in SeqsUpTo(ClusterConnPool, MaxClusterConns)}
    /\ frameDoc \in {Doc(<<>>), Doc(<<Frame(TRUE, <<"c", "z">>)>>),
                     Doc(<<Frame(TRUE, <<"d", "d">>)>>)}
    /\ Start

NextClusters == Build \/ CallGetLensClusters

SpecClusters == InitClusters /\ [][NextClusters]_vars

\* B is a connected component of the undirected view: closed under
\* adjacency, and no proper non-empty part of it is.
Closed(g, B) == \A u \in B, v \in NodeSet(g) : Adjacent(g, u, v) => v \in B

IsComponent(g, B) ==
    /\ B # {} /\ B \subseteq NodeSet(g)
    /\ Closed(g, B)
    /\ \A A \in SUBSET B : (A # {} /\ A # B) => ~Closed(g, A)

FallbackClusters ==
    ret.op = "get_lens_clusters" /\ ret.args = <<FALSE>> /\ ret.exc = "none"

Blocks == {c[2] : c \in ret.value}

ComponentsOfTwo ==
    /\ Blocks = {B \in SUBSET NodeSet(graph) : IsComponent(graph, B) /\ Cardinality(B) >= 2}
    /\ \A c, d \in ret.value : c[1] = d[1] => c = d
    /\ \A B, C \in Blocks : B # C => B \cap C = {}
    /\ \A n \in NodeSet(graph) :
         (\A e \in EdgeSet(graph) : n \notin {e[1], e[2]}) => \A B \in Blocks : n \notin B

\* C22 as stated: without community detection, get_lens_clusters returns
\* the connected components of two or more nodes of the undirected view,
\* pairwise disjoint, and every node that has an edge is in exactly one.
C22_EveryNodeWithAnEdge ==
    FallbackClusters =>
        /\ ComponentsOfTwo
        /\ \A n \in NodeSet(graph) :
             (\E e \in EdgeSet(graph) : n \in {e[1], e[2]}) =>
                 Cardinality({B \in Blocks : n \in B}) = 1

\* C22 amended: ... and every node that has an edge to or from another node
\* is in exactly one cluster.
C22_ComponentsOfTwoOrMore ==
    FallbackClusters =>
        /\ ComponentsOfTwo
        /\ \A n \in NodeSet(graph) :
             (\E e \in EdgeSet(graph) : n \in {e[1], e[2]} /\ e[1] # e[2]) =>
                 Cardinality({B \in Blocks : n \in B}) = 1

\* The fallback on a graph with a cluster, an isolated node, and a node
\* whose only edge joins it to itself.
C22_Witness ==
    /\ FallbackClusters
    /\ Cardinality(Blocks) >= 1
    /\ has_edge(graph, "d", "d")
    /\ \A B \in Blocks : "d" \notin B
    /\ \E n \in NodeSet(graph) : \A e \in EdgeSet(graph) : n \notin {e[1], e[2]}

\* The nodes of a returned neighborhood in the order of their discovery,
\* the id first.
Discovered == <<ret.args[1]>> \o [i \in DOMAIN ret.value |-> ret.value[i][2]]

\* The position in Discovered of the first node with an edge to n.
FirstParent(n) ==
    CHOOSE j \in DOMAIN Discovered :
        /\ has_edge(graph, Discovered[j], n)
        /\ \A k \in DOMAIN Discovered : has_edge(graph, Discovered[k], n) => j <= k

\* C23: every node of a returned neighborhood is listed once, under the
\* kind of the edge from the earliest discovered node that has an edge to
\* it, whatever the kinds of the other edges that lead to it; the nodes are
\* listed parent by parent in discovery order, and for one parent in the
\* order of its edges.
C23_FirstDiscoveryWins ==
    (ret.op = "get_lens_neighborhood" /\ ret.exc = "none") =>
        LET v == ret.value
        IN  /\ \A i, j \in DOMAIN v : v[i][2] = v[j][2] => i = j
            /\ \A i \in DOMAIN v :
                 /\ \E j \in DOMAIN Discovered : has_edge(graph, Discovered[j], v[i][2])
                 /\ FirstParent(v[i][2]) <= i
                 /\ v[i][1] = graph.edgeData[<<Discovered[FirstParent(v[i][2])], v[i][2]>>].type
            /\ \A i, j \in DOMAIN v :
                 i < j =>
                    \/ FirstParent(v[i][2]) < FirstParent(v[j][2])
                    \/ /\ FirstParent(v[i][2]) = FirstParent(v[j][2])
                       /\ IndexOf(graph.edges, <<Discovered[FirstParent(v[i][2])], v[i][2]>>)
                            < IndexOf(graph.edges, <<Discovered[FirstParent(v[j][2])], v[j][2]>>)

\* c is reached from a by an edge of one kind and met again from b through
\* an edge of another kind: it is listed once, under the first kind.
C23_Witness ==
    /\ ret.op = "get_lens_neighborhood"
    /\ ret.exc = "none"
    /\ ret.args = <<"a", 2>>
    /\ has_edge(graph, "a", "b") /\ has_edge(graph, "a", "c") /\ has_edge(graph, "b", "c")
    /\ graph.edgeData[<<"a", "c">>].type # graph.edgeData[<<"b", "c">>].type
    /\ \E i \in DOMAIN ret.value :
          ret.value[i] = <<graph.edgeData[<<"a", "c">>].type, "c">>
    /\ Cardinality({i \in DOMAIN ret.value : ret.value[i][2] = "c"}) = 1

(***************************************************************************)
(* Ranking of bridges: concepts a and b joined through up to MaxMiddles    *)
(* middle concepts, a -> m -> b, with the weights of a list.               *)
(***************************************************************************)
MaxMiddles == 6

MiddleIds == <<"c", "d", "e", "f", "g", "h", "i">>

StarCatalog ==
    Doc(<<Lens("a", "A", "x", AbsentList), Lens("b", "B", "x", AbsentList)>>
        \o [i \in DOMAIN MiddleIds |->
              Lens(MiddleIds[i], MiddleIds[i], IF i = 1 THEN "1" ELSE "x", AbsentList)])

StarWeights ==
    { [in |-> <<9, 5, 7, 2, 4, 6, 3>>, out |-> <<1, 7, 1, 8, 1, 1, 1>>],
      [in |-> <<1, 2, 3, 4, 5, 6, 7>>, out |-> <<2, 2, 2, 2, 2, 2, 2>>] }

Star(n, w) ==
    [i \in 1..n |-> Conn("a", MiddleIds[i], w.in[i], "supports", "i1")]
    \o [i \in 1..n |-> Conn(MiddleIds[i], "b", w.out[i], "supports", "i2")]

InitBridgeRank ==
    /\ lensDoc = StarCatalog
    /\ connDoc \in {Doc(Star(n, w)) : n \in 0..MaxMiddles, w \in StarWeights}
    /\ frameDoc \in {Doc(<<>>), Doc(<<Frame(TRUE, <<"b", "c">>)>>)}
    /\ Start

NextBridgeRank == Build \/ CallFindBridges

SpecBridgeRank == InitBridgeRank /\ [][NextBridgeRank]_vars

\* The weights of the edges, in both directions, between c and the entries
\* of ids other than c.
JoinWeight(c, ids) ==
    LET w(u, v) == IF has_edge(graph, u, v) THEN graph.edgeData[<<u, v>>].weight ELSE 0
        others == {i \in DOMAIN ids : ids[i] # c}
    IN  SumOver([i \in others |-> w(ids[i], c) + w(c, ids[i])], others)

\* C24: find_bridges returns at most 5 of the bridge candidates, the ones
\* with the highest sum of the weights of the edges, in both directions,
\* between the candidate and the query ids other than itself, in
\* non-increasing order of that sum; the result is empty when there is no
\* candidate.
C24_BridgesRanked ==
    ret.op = "find_bridges" =>
        /\ ret.exc = "none"
        /\ \E trivial \in Trivials(ret.args[1]) :
             LET ids == ret.args[1]
                 cands == bridges(graph, ids, trivial)
                 v == ret.value
                 listed == Range(v)
             IN  /\ Len(v) = IF Cardinality(cands) < 5 THEN Cardinality(cands) ELSE 5
                 /\ Cardinality(listed) = Len(v)
                 /\ listed \subseteq cands
                 /\ \A i, j \in DOMAIN v : i < j => JoinWeight(v[i], ids) >= JoinWeight(v[j], ids)
                 /\ \A x \in listed, y \in cands \ listed :
                      JoinWeight(x, ids) >= JoinWeight(y, ids)

\* Six candidates between a and b, scored by edges in both directions: five
\* are returned, and the first has the lighter edge from a.
C24_Witness ==
    /\ ret.op = "find_bridges"
    /\ ret.args = <<<<"a", "b">>>>
    /\ Cardinality(bridges(graph, <<"a", "b">>, FALSE)) = 6
    /\ Len(ret.value) = 5
    /\ ret.value[1] = "d"
    /\ graph.edgeData[<<"a", "d">>].weight < graph.edgeData[<<"a", "c">>].weight

(***************************************************************************)
(* The temporal step: four concepts with episodes 1, 2, 3 or none, a       *)
(* curated relationship and a frame.                                       *)
(***************************************************************************)
MaxTemporalConns == 1

EpisodeCatalogs ==
    {Doc(<<Lens("a", "A", ea, AbsentList), Lens("b", "B", eb, AbsentList),
           Lens("c", "C", ec, AbsentList), Lens("d", "D", ed, AbsentList)>>) :
        ea \in {"1", "2"}, eb \in {"1", "2", "3", "x"},
        ec \in {"2", "3", "x"}, ed \in {"1", "3"}}

EpisodeConnPool ==
    { Conn("a", "b", 9, "supports", "i1"),
      Conn("b", "a", 5, "contrast", "i2"),
      Conn("a", "z", 5, "supports", "i3") }

InitTemporal ==
    /\ lensDoc \in EpisodeCatalogs
    /\ connDoc \in {Doc(cs) : cs \in SeqsUpTo(EpisodeConnPool, MaxTemporalConns)}
    /\ frameDoc \in {Doc(<<>>), Doc(<<Frame(TRUE, <<"c", "d", "a">>)>>)}
    /\ Start

SpecTemporal == InitTemporal /\ [][Build]_vars

\* The graph as the steps before the temporal one leave it.
BeforeTemporal ==
    LET g1 == IF lensDoc.loaded THEN AddLenses(EmptyGraph, lensDoc.records) ELSE EmptyGraph
        g2 == IF connDoc.loaded THEN AddConnections(g1, connDoc.records) ELSE g1
    IN  IF frameDoc.loaded THEN AddFrames(g2, frameDoc.records) ELSE g2

HasIndex(n) == graph.nodeData[n].hasData /\ graph.nodeData[n].episode \in {"1", "2", "3", "4"}

SeqIndex(n) ==
    CASE graph.nodeData[n].episode = "1" -> 1
      [] graph.nodeData[n].episode = "2" -> 2
      [] graph.nodeData[n].episode = "3" -> 3
      [] OTHER -> 4

IsTemporal(u, v) == has_edge(graph, u, v) /\ graph.edgeData[<<u, v>>].type = "temporal"

\* C25: after construction every temporal edge has weight 0.1 and leads
\* from a concept to one whose sequence index is higher by 1; two concepts
\* with indices n and n + 1 that no earlier step joined are joined by a
\* temporal edge; concepts with equal indices, or indices 2 or more apart,
\* have no temporal edge.
C25_TemporalAdjacentOnly ==
    pc = "built" =>
        /\ \A e \in EdgeSet(graph) :
             graph.edgeData[e].type = "temporal" =>
                /\ graph.edgeData[e].weight = 1
                /\ HasIndex(e[1]) /\ HasIndex(e[2])
                /\ SeqIndex(e[2]) = SeqIndex(e[1]) + 1
        /\ \A u, v \in NodeSet(graph) :
             (/\ HasIndex(u) /\ HasIndex(v)
              /\ SeqIndex(v) = SeqIndex(u) + 1
              /\ ~has_edge(BeforeTemporal, u, v)
              /\ ~has_edge(BeforeTemporal, v, u)) => IsTemporal(u, v)
        /\ \A u, v \in NodeSet(graph) :
             (/\ HasIndex(u) /\ HasIndex(v)
              /\ \/ SeqIndex(u) = SeqIndex(v)
                 \/ SeqIndex(v) >= SeqIndex(u) + 2) =>
                    ~IsTemporal(u, v) /\ ~IsTemporal(v, u)

\* A built graph with episodes 1, 2 and 3: a temporal edge, a pair two
\* episodes apart, and an adjacent pair that a curated relationship joined.
C25_Witness ==
    /\ pc = "built"
    /\ IsTemporal("a", "c")
    /\ HasIndex("d") /\ SeqIndex("d") = SeqIndex("a") + 2
    /\ ~has_edge(graph, "a", "d")
    /\ HasIndex("b") /\ SeqIndex("b") = SeqIndex("a") + 1
    /\ has_edge(BeforeTemporal, "a", "b")
    /\ ~IsTemporal("a", "b")

(***************************************************************************)
(* Journey endpoints: seven concepts of which one, six or all carry the    *)
(* tag 'ai' (six or more concepts sharing a tag get no concept edges), and *)
(* a few relationships leaving a.                                          *)
(***************************************************************************)
EndpointCatalogs ==
    {Doc([i \in DOMAIN JourneyIds |->
            Lens(JourneyIds[i], JourneyIds[i], "x",
                 IF JourneyIds[i] \in tagged THEN ListOf(<<TagAi>>) ELSE AbsentList)]) :
        tagged \in {{"g"}, {"b", "c", "d", "e", "f", "g"},
                    {"a", "b", "c", "d", "e", "f", "g"}}}

EndpointConnDocs ==
    {Doc(<<>>), Doc(<<Conn("a", "b", 9, "supports", "i1"), Conn("b", "g", 9, "supports", "i2")>>)}
    \cup {Doc(<<Conn(s, t, 9, "supports", "i1")>>) : s \in {"a", "c"}, t \in {"b", "d", "g"}}

InitEndpoints ==
    /\ lensDoc \in EndpointCatalogs
    /\ connDoc \in EndpointConnDocs
    /\ frameDoc \in {Doc(<<>>), Doc(<<Frame(TRUE, <<"f", "g">>)>>)}
    /\ Start

SpecEndpoints == InitEndpoints /\ [][NextJourney]_vars

\* C26: whenever some concept whose definition or tags contain the text has
\* a weighted shortest path from start of at most 4 edges (within the bound
\* on either reading of it), suggest_lens_journey returns a journey,
\* however many concepts match and wherever that concept stands in node
\* order.
C26_AnyMatchIsAnEndpoint ==
    (/\ ret.op = "suggest_lens_journey"
     /\ has_node(graph, ret.args[1])
     /\ \E i \in DOMAIN target_lenses(graph, ret.args[2]) :
           ShortestWithin(graph, ret.args[1], target_lenses(graph, ret.args[2])[i], 4))
    => ret.exc = "none" /\ ret.value # <<>>

\* The ids of the entries a returned enhancement added.
AddedIds ==
    {ret.value[i].id : i \in (Len(ret.args[1]) + 1)..Len(ret.value)}

\* C27: the ids enhance_retrieval adds are the bridges among the initial
\* ids, the contrasts of the first 3 entries of the initial list and the
\* radius-1 neighborhoods of its first 2 entries, without the initial ids
\* and the ids that are no nodes: the list and the graph determine them.
C27_AddedFromListOrder ==
    (ret.op = "enhance_retrieval" /\ ret.exc = "none") =>
        LET ids == ret.args[1]
            contrast_ids == ContrastIds(graph, Take(ids, 3))
            neighborhood_ids == NeighborhoodIds(graph, Take(ids, 2))
        IN  /\ contrast_ids.exc = "none"
            /\ neighborhood_ids.exc = "none"
            /\ \E trivial \in Trivials(ids) :
                 \E b \in find_bridges(graph, ids, trivial) :
                    AddedIds = {n \in (Range(b.val) \cup contrast_ids.val
                                        \cup neighborhood_ids.val) \ Range(ids) :
                                  has_node(graph, n)}

\* The attributes of the curated relationship at position i of the list.
CuratedData(i) ==
    [weight |-> connDoc.records[i].weight, type |-> connDoc.records[i].type,
     insight |-> connDoc.records[i].insight]

\* The positions of the loaded curated relationships for the ordered pair e.
CuratedAt(e) ==
    {i \in LoadedIdx(connDoc, IsComplete) :
        <<connDoc.records[i].source_id, connDoc.records[i].target_id>> = e}

\* C28: after construction the edge of an ordered pair with curated
\* relationships carries the weight, kind and insight of the last of them
\* in the list; the frame, temporal and concept steps change no edge that
\* exists.
C28_LaterCuratedOverwrites ==
    /\ [](pc = "built" =>
            \A e \in CuratedProposed :
                /\ has_edge(graph, e[1], e[2])
                /\ \A i \in CuratedAt(e) :
                     (\A j \in CuratedAt(e) : j <= i) => graph.edgeData[e] = CuratedData(i))
    /\ [][Guarded =>
            \A e \in EdgeSet(graph) :
                /\ has_edge(graph', e[1], e[2])
                /\ graph'.edgeData[e] = graph.edgeData[e]]_vars

\* Two curated relationships for one ordered pair, with different
\* attributes, on a pair that the frame or the temporal step proposes too.
C28_Witness ==
    /\ pc = "built"
    /\ \E e \in CuratedProposed \cap (FrameProposed \cup TemporalProposed) :
          \E i, j \in CuratedAt(e) :
             /\ i < j
             /\ CuratedData(i) # CuratedData(j)
             /\ graph.edgeData[e] = CuratedData(j)

\* There is a directed path of at most k edges from id to n.
DirectedWithin(id, n, k) ==
    \E len \in 1..k :
        \E p \in [1..(len + 1) -> NodeSet(graph)] :
            /\ p[1] = id /\ p[len + 1] = n
            /\ \A i \in 1..len : has_edge(graph, p[i], p[i + 1])

\* C29: the nodes of a returned neighborhood(id, radius) are the nodes
\* other than id that a directed path of at most radius edges leads to from
\* id; a node with an edge into id and no such path from id is not in it.
C29_FollowsDirection ==
    (ret.op = "get_lens_neighborhood" /\ ret.exc = "none") =>
        LET id == ret.args[1]
            listed == {ret.value[i][2] : i \in DOMAIN ret.value}
        IN  /\ listed = {n \in NodeSet(graph) \ {id} : DirectedWithin(id, n, ret.args[2])}
            /\ \A n \in NodeSet(graph) :
                 (has_edge(graph, n, id) /\ ~DirectedWithin(id, n, ret.args[2]))
                    => n \notin listed

\* c has an edge into a and cannot be reached from a within two edges: the
\* neighborhood of a holds other nodes, and not c.
C29_Witness ==
    /\ ret.op = "get_lens_neighborhood"
    /\ ret.exc = "none"
    /\ ret.args = <<"a", 2>>
    /\ has_edge(graph, "c", "a")
    /\ ~DirectedWithin("a", "c", 2)
    /\ ret.value # <<>>
    /\ \A i \in DOMAIN ret.value : ret.value[i][2] # "c"

(***************************************************************************)
(* QueryCache and the endpoint that clears it.  The clock is time.time(),  *)
(* read by the operation and taken not to run backwards; it is counted in  *)
(* units of which the time to live holds CacheTtl.  params is None or a    *)
(* dict, given as the list of its items in insertion order.  The key is    *)
(* the text the digest is taken of: equal digests are equal texts.         *)
(***************************************************************************)
CacheTtl == 2
MaxTime == 4

NoParams == [kind |-> "None", items |-> <<>>]
Dict(items) == [kind |-> "dict", items |-> items]

\* The order of the parameter names under sorted().
NameRank(name) == IF name = "episode" THEN 1 ELSE 2

\* Faulty variant: the items are taken in the order of the dict.
_make_key_Unsorted(endpoint, params) ==
    <<endpoint, IF params.kind = "dict" THEN params.items ELSE <<>>>>

_make_key(endpoint, params) ==
    LET sorted_params ==
            IF params.kind = "dict" /\ params.items # <<>>
            THEN Items(SortAsc([i \in DOMAIN params.items |->
                                   <<NameRank(params.items[i][1]), params.items[i]>>]))
            ELSE <<>>
    IN  <<endpoint, sorted_params>>

\* The mapping the parameters stand for, whatever their order.
Logical(endpoint, params) == <<endpoint, Range(params.items)>>

Drop(f, k) == [x \in DOMAIN f \ {k} |-> f[x]]

\* The calls made: an endpoint with two parameters, in either order, and
\* one without parameters, given as None or as an empty dict.
CacheCalls ==
    { <<"get_lenses", Dict(<<<<"episode", 1>>, <<"limit", 2>>>>)>>,
      <<"get_lenses", Dict(<<<<"limit", 2>>, <<"episode", 1>>>>)>>,
      <<"get_statistics", NoParams>>,
      <<"get_statistics", Dict(<<>>)>> }

CacheResults == {"r1", "r2"}

CacheDone(op, args, r) ==
    /\ ret' = Call(op, args, Ok(r))
    /\ UNCHANGED <<docs, pc, graph, lens_lists>>

\* QueryCache.set
CacheSet ==
    \E call \in CacheCalls, result \in CacheResults :
      LET endpoint == call[1]
          params == call[2]
      IN
        /\ cache' = (_make_key(endpoint, params) :> <<result, now>>) @@ cache
        /\ lastSet' = (Logical(endpoint, params) :>
                          [result |-> result, time |-> now, cleared |-> FALSE]) @@ lastSet
        /\ CacheDone("cache_set", <<endpoint, params, result>>, "None")
        /\ UNCHANGED <<now, CACHE_VERSION>>

\* Faulty variant: an entry is still valid when exactly the time to live
\* has passed.
Valid_AtTtl(timestamp) == now - timestamp <= CacheTtl

\* time.time() - timestamp < self.ttl
Valid(timestamp) == now - timestamp < CacheTtl

\* QueryCache.get; the time of the call is recorded with it.
CacheGet ==
    \E call \in CacheCalls :
        LET endpoint == call[1]
            params == call[2]
            key == _make_key(endpoint, params)
        IN  /\ IF key \in DOMAIN cache
               THEN IF Valid(cache[key][2])
                    THEN /\ CacheDone("cache_get", <<endpoint, params, now>>, cache[key][1])
                         /\ cache' = cache
                    ELSE /\ CacheDone("cache_get", <<endpoint, params, now>>, "None")
                         /\ cache' = Drop(cache, key)
               ELSE /\ CacheDone("cache_get", <<endpoint, params, now>>, "None")
                    /\ cache' = cache
            /\ UNCHANGED <<now, CACHE_VERSION, lastSet>>

\* POST /api/v1/cache/clear: QueryCache.clear and increment_cache_version.
clear_cache ==
    /\ cache' = [k \in {} |-> <<>>]
    /\ CACHE_VERSION' = now
    /\ lastSet' = [k \in DOMAIN lastSet |-> [lastSet[k] EXCEPT !.cleared = TRUE]]
    /\ CacheDone("clear_cache", <<>>, CACHE_VERSION')
    /\ UNCHANGED now

\* Time passes between two operations.
Tick ==
    /\ now < MaxTime
    /\ now' = now + 1
    /\ UNCHANGED <<docs, pc, graph, lens_lists, ret, cache, CACHE_VERSION, lastSet>>

InitCache ==
    /\ lensDoc = MissingDoc /\ connDoc = MissingDoc /\ frameDoc = MissingDoc
    /\ Start

NextCache == CacheSet \/ CacheGet \/ clear_cache \/ Tick

SpecCache == InitCache /\ [][NextCache]_vars

\* The last set of the key of a recorded get is fresh at the time of the
\* get: it happened less than the time to live earlier and no clear followed.
Fresh ==
    LET k == Logical(ret.args[1], ret.args[2])
    IN  /\ k \in DOMAIN lastSet
        /\ ~lastSet[k].cleared
        /\ ret.args[3] - lastSet[k].time < CacheTtl

\* C30: get returns the result of the latest set of the key when that set
\* is fresh, whatever the order of the params, and None otherwise; after a
\* get that returned None the key has no entry.
C30_CacheFreshness ==
    ret.op = "cache_get" =>
        /\ ret.exc = "none"
        /\ Fresh => ret.value = lastSet[Logical(ret.args[1], ret.args[2])].result
        /\ ~Fresh => /\ ret.value = "None"
                     /\ _make_key(ret.args[1], ret.args[2]) \notin DOMAIN cache

\* A get with the params in one order returns what a set with the params in
\* the other order stored, just before the entry expires.
C30_Witness ==
    /\ ret.op = "cache_get"
    /\ ret.args[2] = Dict(<<<<"limit", 2>>, <<"episode", 1>>>>)
    /\ ret.value = "r1"
    /\ lastSet[Logical(ret.args[1], ret.args[2])].time = ret.args[3] - (CacheTtl - 1)
    /\ ret.args[3] > 0

====
